---- MODULE Spec2Model ----
(***************************************************************************)
(* Model of llm-compact-logger's two stateful/algorithmic cores:           *)
(*   - PersistentIndex (persistent-index.js): the SQLite-backed history    *)
(*     store with lazy single-flight initialization;                       *)
(*   - RootCauseAnalyzer (root-cause-analyzer.js): the pattern engine.     *)
(* JavaScript runs each synchronous stretch of code to completion, so one  *)
(* action is one such stretch: from a call to its first await, or from the *)
(* resumption after an await to the return.                                *)
(***************************************************************************)
EXTENDS Integers, Sequences, FiniteSets, TLC

(***************************************************************************)
(* Bounds of the model.                                                    *)
(***************************************************************************)
\* entries in one recordTestResults batch
MaxBatch == 2
\* clock advances (slots) in one behaviour
MaxTicks == 1
\* clock slots in one UTC day (the time of day, coarsened)
SlotsPerDay == 2
\* the day on which the behaviour starts
StartDay == 100
\* failures in one batch handed to analyze
MaxFailures == 3
\* the largest options.minGroupSize
MaxMinGroupSize == 3
\* parts of a message shape handed to hashError
MaxParts == 2

(***************************************************************************)
(* Program constants.                                                      *)
(***************************************************************************)
\* options.retentionDays || 30
RetentionDays == 30
\* getFlakiness(testName, windowDays = 7)
WindowDays == 7
\* getTestHistory(testName, limit = 10)
DefaultLimit == 10
\* findSimilarFailures: LIMIT 10
SimilarLimit == 10
\* 'T', the date/time separator of Date.prototype.toISOString()
CharT == 84
\* ' ', the date/time separator of SQLite's datetime()
CharSp == 32
\* options.minGroupSize || 2
DefaultMinGroupSize == 2

Procs == {"p1", "p2"}
TestNames == {"t1", "t2"}
\* error objects e of a test record, by the hash of their message
ErrorHashes == {"h1", "h2"}
NoError == "none"
\* a location f of a test record, "file:line", as its pieces of text; a
\* record without f has none
NoLocation == << >>
Location(path, line) == << path, ":", line >>
\* the test records { t, f, e } a caller hands to recordTestResults
TestInputs == { [t |-> "t1", f |-> NoLocation, e |-> NoError],
                [t |-> "t2", f |-> Location("b.test.js", "3"), e |-> "h1"] }

VARIABLES
    \* PersistentIndex fields
    enabled, initialized, initPromise, db,
    \* the database file: tables runs and results, and their AUTOINCREMENT counters
    runs, results, nextRunId, nextResultId,
    \* the environment: whether the driver build enforces foreign keys, the clock
    fk, now, ticks,
    \* initialization attempts started so far: "loading" | "done" | "rejected"
    attempts,
    \* the last console.warn of initialize and of the cleanup() it runs:
    \* "none" | "not_installed" | "failed" | "cleanup_failed"
    initWarn,
    \* the callers, each making one call: position ("idle" | "waiting" |
    \* "returned") and awaited attempt
    pc, awaits,
    \* the operation completed last: its arguments, the value returned and the
    \* warning logged
    done,
    \* history: the sizes of the batches handed to insertMany so far
    batches,
    \* RootCauseAnalyzer: the option field, the argument of analyze(), the
    \* value it returned, and whether it has been called
    \* ("idle" | "ready" | "analyzed")
    minGroupSize, failures, rootCauses, phase,
    \* what getSummary returned for rootCauses
    summary,
    \* VitestReporter: the position of onFinished ("idle" | "ready" |
    \* "finalizing" | "threw" | "finished"), whether this.enhancers.index is
    \* a PersistentIndex, the kind of value enhancedFailures holds when the
    \* index tracking starts, the failing and passing tests of the run, and
    \* the store calls made
    vr,
    \* hashError applied to two error messages: the messages, the hashes
    \* returned and whether it has been called
    hashing,
    \* findCommonSourceFiles applied to the failures of a group: the
    \* failures, the list returned and whether it has been called
    common

vars == << enabled, initialized, initPromise, db, runs, results, nextRunId,
           nextResultId, fk, now, ticks, attempts, initWarn, pc, awaits,
           done, batches, minGroupSize, failures, rootCauses, phase, summary,
           vr, hashing, common >>

(***************************************************************************)
(* Time and timestamp text.  A timestamp string is modelled as its         *)
(* sequence of comparable characters: the date (zero-padded, so its text   *)
(* order is its numeric order), the separator, the time of day.            *)
(***************************************************************************)
Day(n) == n \div SlotsPerDay
Slot(n) == n % SlotsPerDay

\* new Date().toISOString(): "YYYY-MM-DDTHH:MM:SS.mmmZ"
toISOString(n) == << Day(n), CharT, Slot(n) >>

\* SQLite datetime('now', '-' || d || ' days'): "YYYY-MM-DD HH:MM:SS"
datetime(n, d) == << Day(n) - d, CharSp, Slot(n) >>

\* SQLite's comparison of two TEXT values (BINARY collation): a < b
RECURSIVE TextLess(_, _)
TextLess(a, b) ==
    IF b = << >> THEN FALSE
    ELSE IF a = << >> THEN TRUE
    ELSE IF Head(a) # Head(b) THEN Head(a) < Head(b)
    ELSE TextLess(Tail(a), Tail(b))

RunIds(rs) == { r.id : r \in rs }
RunOf(rs, id) == CHOOSE r \in rs : r.id = id

(***************************************************************************)
(* Values returned to callers.  One record shape for all of them, so that  *)
(* any two can be compared: k is the kind of value.                        *)
(***************************************************************************)
NoStats == [totalRuns |-> 0, passes |-> 0, failures |-> 0, isFlaky |-> FALSE]
RetValue(kind) == [k |-> kind, id |-> 0, rows |-> << >>, similar |-> << >>,
                   stats |-> NoStats]
\* the caller has not returned yet
RetPending == RetValue("pending")
\* JavaScript null
RetNull == RetValue("null")
\* JavaScript undefined (a Promise<void>)
RetUndefined == RetValue("undefined")
\* an exception reached the caller
RetThrown == RetValue("thrown")
RetId(n) == [RetValue("id") EXCEPT !.id = n]
RetRows(s) == [RetValue("rows") EXCEPT !.rows = s]
RetSimilar(s) == [RetValue("similar") EXCEPT !.similar = s]
RetStats(st) == [RetValue("stats") EXCEPT !.stats = st]

\* the outcome of one operation body: the tables afterwards, the value
\* returned and the warning logged
Outcome(rs, res, nrun, nres, r, w) ==
    [runs |-> rs, results |-> res, nextRunId |-> nrun, nextResultId |-> nres,
     ret |-> r, warn |-> w]
\* an operation that leaves the database as it is
ReadOnly(r, w) == Outcome(runs, results, nextRunId, nextResultId, r, w)

\* a guard that forgets `!this.enabled`
DisabledWithDbOnly(d, e) == d = "null"

\* `!this.db || !this.enabled`: the guard every operation starts with
DisabledWith(d, e) == d = "null" \/ ~e
Disabled == DisabledWith(db, enabled)

(***************************************************************************)
(* recordTestRun                                                           *)
(***************************************************************************)
\* a catch block that warns and falls off the end of the function
recordTestRunCatchNoReturn == ReadOnly(RetUndefined, "record_run_failed")

\* the catch block of recordTestRun: warn and return null
recordTestRunCatch == ReadOnly(RetNull, "record_run_failed")

recordTestRun ==
    IF Disabled THEN { ReadOnly(RetNull, "none") }
    ELSE
      \* prepare/run throws on a closed handle, and may throw on an I/O error
      { recordTestRunCatch } \cup
      ( IF db = "open"
        THEN { Outcome(runs \cup { [id |-> nextRunId,
                                    timestamp |-> toISOString(now)] },
                       results, nextRunId + 1, nextResultId,
                       RetId(nextRunId), "none") }
        ELSE { } )

(***************************************************************************)
(* recordTestResults                                                       *)
(***************************************************************************)
\* the row insert.run(...) writes for the i-th test of the batch; b is no
\* column: it records which call of insertMany wrote the row
\* test.f?.split(':')[0] || 'unknown'
fileOf(f) == IF f = NoLocation THEN "unknown" ELSE f[1]

ResultRow(runId, tests, i, b) ==
    [ id         |-> nextResultId + i - 1,
      run_id     |-> runId,
      test_name  |-> tests[i].t,
      file       |-> fileOf(tests[i].f),
      status     |-> IF tests[i].e # NoError THEN "fail" ELSE "pass",
      error_hash |-> tests[i].e,
      b          |-> b ]

\* the inserts run one by one outside a transaction: those before the
\* failing one stay
insertEach(runId, tests, failAt, b) ==
    LET n == IF failAt = 0 THEN Len(tests) ELSE failAt - 1
    IN [ results |-> results \cup { ResultRow(runId, tests, i, b) : i \in 1..n },
         nextResultId |-> nextResultId + n, threw |-> failAt # 0 ]

\* db.transaction(fn)(tests): fn inserts the tests in order; failAt is the
\* index of the insert that throws (0: none).  A throw rolls back every
\* insert of the call.
insertMany(runId, tests, failAt, b) ==
    IF failAt = 0
    THEN [ results |-> results \cup
                         { ResultRow(runId, tests, i, b) : i \in 1..Len(tests) },
           nextResultId |-> nextResultId + Len(tests), threw |-> FALSE ]
    ELSE [ results |-> results, nextResultId |-> nextResultId, threw |-> TRUE ]

\* a runId argument that is a Promise object (an unawaited recordTestRun):
\* truthy, and no value the driver can bind to a statement
PromiseArg == 0 - 1

\* test.t of a record that has no field t: undefined, which the driver
\* cannot bind either (and test_name is NOT NULL)
UndefinedName == "undefined"

\* the insert that throws whatever the medium does, if one does: the first
\* one, when the runId cannot be bound or, with foreign keys enforced, is no
\* stored run; else the first one of a test without a name
ConstraintFailAt(runId, tests) ==
    LET unnamed == { i \in 1..Len(tests) : tests[i].t = UndefinedName }
    IN IF Len(tests) > 0
          /\ (runId = PromiseArg \/ (fk /\ runId \notin RunIds(runs)))
       THEN 1
       ELSE IF unnamed # { }
       THEN CHOOSE i \in unnamed : \A j \in unnamed : i <= j
       ELSE 0

recordTestResults(runId, tests) ==
    IF Disabled \/ runId = 0 THEN { ReadOnly(RetUndefined, "none") }
    ELSE IF db = "closed"
    THEN { ReadOnly(RetUndefined, "record_results_failed") }
    ELSE
      LET b == Len(batches) + 1
          c == ConstraintFailAt(runId, tests)
          \* an I/O error may hit any insert
          failAts == IF c # 0 THEN { c } ELSE 0..Len(tests)
      IN { LET tx == insertMany(runId, tests, f, b)
           IN Outcome(runs, tx.results, nextRunId, tx.nextResultId,
                      RetUndefined,
                      IF tx.threw THEN "record_results_failed" ELSE "none")
           : f \in failAts }

(***************************************************************************)
(* Queries                                                                 *)
(***************************************************************************)
\* a catch block of a query that warns and rethrows
queryCatchRethrow(empty) == ReadOnly(RetThrown, "query_failed")

\* the catch block of a query: warn and return the empty value ([] or null)
queryCatch(empty) == ReadOnly(empty, "query_failed")

\* a join on the wrong column: ON r.id = runs.id
JoinedOnId(t) ==
    { [ id |-> r.id, run_id |-> r.run_id, test_name |-> r.test_name,
        file |-> r.file, status |-> r.status, error_hash |-> r.error_hash, b |-> r.b,
        timestamp |-> RunOf(runs, r.id).timestamp ]
      : r \in { x \in results : x.test_name = t /\ x.id \in RunIds(runs) } }

\* results r JOIN runs ON r.run_id = runs.id WHERE r.test_name = t
Joined(t) ==
    { [ id |-> r.id, run_id |-> r.run_id, test_name |-> r.test_name,
        file |-> r.file, status |-> r.status, error_hash |-> r.error_hash, b |-> r.b,
        timestamp |-> RunOf(runs, r.run_id).timestamp ]
      : r \in { x \in results : x.test_name = t /\ x.run_id \in RunIds(runs) } }

\* ORDER BY runs.timestamp ASC LIMIT limit: oldest first
RECURSIVE OrderedByTimestampAsc(_, _)
OrderedByTimestampAsc(rows, limit) ==
    IF limit = 0 \/ rows = { } THEN { << >> }
    ELSE UNION { { << r >> \o s
                   : s \in OrderedByTimestampAsc(rows \ { r }, limit - 1) }
                 : r \in { x \in rows :
                     \A y \in rows : ~TextLess(y.timestamp, x.timestamp) } }

\* ORDER BY runs.timestamp DESC LIMIT limit: every sequence SQLite may return
\* (rows of equal timestamp come in any order)
RECURSIVE OrderedByTimestampDesc(_, _)
OrderedByTimestampDesc(rows, limit) ==
    IF limit = 0 \/ rows = { } THEN { << >> }
    ELSE UNION { { << r >> \o s
                   : s \in OrderedByTimestampDesc(rows \ { r }, limit - 1) }
                 : r \in { x \in rows :
                     \A y \in rows : ~TextLess(x.timestamp, y.timestamp) } }

getTestHistory(t, limit) ==
    IF Disabled THEN { ReadOnly(RetRows(<< >>), "none") }
    ELSE
      { queryCatch(RetRows(<< >>)) } \cup
      ( IF db = "open" /\ t # UndefinedName
        THEN { ReadOnly(RetRows(s), "none")
               : s \in OrderedByTimestampDesc(Joined(t), limit) }
        ELSE { } )

\* the rows getFlakiness aggregates:
\* WHERE r.test_name = ? AND runs.timestamp > datetime('now', '-w days')
InWindow(t, w) ==
    { r \in Joined(t) : TextLess(datetime(now, w), r.timestamp) }

\* a flakiness test that asks for a failure only
isFlakyAnyFailure(nPass, nFail) == nFail > 0

\* isFlaky: stats.passes > 0 && stats.failures > 0
isFlaky(nPass, nFail) == nPass > 0 /\ nFail > 0

getFlakiness(t, w) ==
    IF Disabled THEN { ReadOnly(RetNull, "none") }
    ELSE
      { queryCatch(RetNull) } \cup
      ( IF db = "open" /\ t # UndefinedName
        THEN LET rows == InWindow(t, w)
                 nPass == Cardinality({ r \in rows : r.status = "pass" })
                 nFail == Cardinality({ r \in rows : r.status = "fail" })
             IN IF Cardinality(rows) = 0
                THEN { ReadOnly(RetNull, "none") }
                ELSE { ReadOnly(RetStats(
                          [ totalRuns |-> Cardinality(rows), passes |-> nPass,
                            failures |-> nFail,
                            isFlaky |-> isFlaky(nPass, nFail) ]), "none") }
        ELSE { } )

\* WHERE error_hash = ? AND status = 'fail'
SimilarRows(h) == { r \in results : r.error_hash = h /\ r.status = "fail" }

\* GROUP BY test_name alone, file being that of one row of the group
SimilarGroupsByTest(h) ==
    { [ test_name |-> t,
        file |-> (CHOOSE r \in SimilarRows(h) : r.test_name = t).file,
        occurrences |-> Cardinality({ r \in SimilarRows(h) :
                                       r.test_name = t }) ]
      : t \in { r.test_name : r \in SimilarRows(h) } }

\* SELECT test_name, file, COUNT(*) as occurrences ... GROUP BY test_name, file
SimilarGroups(h) ==
    { [ test_name |-> g[1], file |-> g[2],
        occurrences |-> Cardinality({ r \in SimilarRows(h) :
                            r.test_name = g[1] /\ r.file = g[2] }) ]
      : g \in { << r.test_name, r.file >> : r \in SimilarRows(h) } }

\* ORDER BY occurrences DESC LIMIT limit: every sequence SQLite may return
RECURSIVE OrderedByOccurrencesDesc(_, _)
OrderedByOccurrencesDesc(groups, limit) ==
    IF limit = 0 \/ groups = { } THEN { << >> }
    ELSE UNION { { << g >> \o s
                   : s \in OrderedByOccurrencesDesc(groups \ { g }, limit - 1) }
                 : g \in { x \in groups :
                     \A y \in groups : x.occurrences >= y.occurrences } }

findSimilarFailures(h) ==
    IF Disabled \/ h = NoError THEN { ReadOnly(RetSimilar(<< >>), "none") }
    ELSE
      { queryCatch(RetSimilar(<< >>)) } \cup
      ( IF db = "open"
        THEN { ReadOnly(RetSimilar(s), "none")
               : s \in OrderedByOccurrencesDesc(SimilarGroups(h), SimilarLimit) }
        ELSE { } )

(***************************************************************************)
(* cleanup                                                                 *)
(***************************************************************************)
\* a selection without the WHERE clause: every run
AllRunIds(n) == RunIds(runs)

\* SELECT id FROM runs WHERE timestamp < datetime('now', '-N days'),
\* `now` read at clock n
OldRunIds(n) ==
    { r.id : r \in { x \in runs :
                       TextLess(x.timestamp, datetime(n, RetentionDays)) } }

CleanupOutcome(rs, res, n, end) ==
    [runs |-> rs, results |-> res, now |-> n, end |-> end]

\* the try block of cleanup: the two DELETE statements, each reading the
\* clock itself (the second adv slots after the first); io is the statement
\* an I/O error hits (0: none).  A statement that throws changes nothing and
\* ends the block.
cleanupStatements(adv, io) ==
    LET res1 == { r \in results : r.run_id \notin OldRunIds(now) }
        gone == OldRunIds(now + adv)
        \* with foreign keys enforced, DELETE FROM runs fails when a row to
        \* delete still has result rows
        fkFails == fk /\ \E r \in res1 : r.run_id \in gone
    IN IF io = 1 THEN CleanupOutcome(runs, results, now, "failed")
       ELSE IF io = 2 \/ fkFails
       THEN CleanupOutcome(runs, res1, now + adv, "failed")
       ELSE CleanupOutcome({ x \in runs : x.id \notin gone }, res1, now + adv,
                           "ok")

\* a cleanup without its guard
cleanupUnguarded(d, e) ==
    { cleanupStatements(adv, io) :
        adv \in 0..(IF ticks < MaxTicks THEN 1 ELSE 0), io \in 0..2 }

\* cleanup(), with this.db = d and this.enabled = e
cleanup(d, e) ==
    IF DisabledWith(d, e) \/ RetentionDays = 0
    THEN { CleanupOutcome(runs, results, now, "skipped") }
    ELSE IF d = "closed"
    THEN { CleanupOutcome(runs, results, now, "failed") }
    ELSE { cleanupStatements(adv, io) :
             adv \in 0..(IF ticks < MaxTicks THEN 1 ELSE 0), io \in 0..2 }

(***************************************************************************)
(* initialize                                                              *)
(***************************************************************************)
\* an initialize() without the initPromise check
InitNeverInFlight == FALSE

\* `if (this.initPromise)`: an attempt was started before
InitInFlight == initPromise # 0

\* what the awaited environment does to the attempt:
\* import fails; mkdirSync throws; new Database throws; setupSchema throws; none
InitOutcomes == { "no_driver", "mkdir_fail", "open_fail", "schema_fail", "ok" }

\* a catch block that warns, disables and rethrows
initializeCatchRethrow ==
    [enabled |-> FALSE, initialized |-> FALSE, attempt |-> "rejected",
     initWarn |-> "failed"]

\* the catch block of the attempt: warn, disable, mark initialized
initializeCatch ==
    [enabled |-> FALSE, initialized |-> TRUE, attempt |-> "done",
     initWarn |-> "failed"]

(***************************************************************************)
(* The callers                                                             *)
(***************************************************************************)
Batches == UNION { [1..n -> TestInputs] : n \in 0..MaxBatch }
Limits == { 1, DefaultLimit }

Op(name, runId, tests, t, limit, h) ==
    [name |-> name, runId |-> runId, tests |-> tests, t |-> t,
     limit |-> limit, h |-> h]
NoArgs(name) == Op(name, 0, << >>, "t1", 0, NoError)

\* the run ids a caller may pass: a falsy one and the two ids issued last
RunIdArgs == { 0, nextRunId - 2, nextRunId - 1 }

\* the calls a caller may make
Ops ==
    { NoArgs("recordTestRun") }
    \cup { Op("recordTestResults", id, ts, "t1", 0, NoError)
           : id \in RunIdArgs, ts \in Batches }
    \cup { Op("getTestHistory", 0, << >>, t, l, NoError)
           : t \in TestNames, l \in Limits }
    \cup { Op("getFlakiness", 0, << >>, t, 0, NoError) : t \in TestNames }
    \cup { Op("findSimilarFailures", 0, << >>, "t1", 0, h)
           : h \in ErrorHashes \cup { NoError } }

\* the body of an operation, after `await this.initialize()`
Body(o) ==
    CASE o.name = "recordTestRun" -> recordTestRun
      [] o.name = "recordTestResults" -> recordTestResults(o.runId, o.tests)
      [] o.name = "getTestHistory" -> getTestHistory(o.t, o.limit)
      [] o.name = "getFlakiness" -> getFlakiness(o.t, WindowDays)
      [] o.name = "findSimilarFailures" -> findSimilarFailures(o.h)

\* whether the body reaches insertMany(tests)
RunsTransaction(o) ==
    o.name = "recordTestResults" /\ ~Disabled /\ o.runId # 0 /\ db = "open"

Done(o, r, w) == [op |-> o, ret |-> r, warn |-> w]

index == << enabled, initialized, initPromise, db >>
analyzer == << minGroupSize, failures, rootCauses, phase, summary >>
helpers == << hashing, common >>
file == << runs, results, nextRunId, nextResultId >>
clock == << now, ticks >>

\* A caller invokes a store operation: every one of them starts with
\* `await this.initialize()`, which runs up to its first await.  initialize()
\* reads neither the operation nor its arguments, so they are drawn when the
\* body runs.
Call(p) ==
    /\ pc[p] = "idle"
    /\ pc' = [pc EXCEPT ![p] = "waiting"]
    /\ IF initialized
       THEN /\ awaits' = [awaits EXCEPT ![p] = 0]
            /\ UNCHANGED << initPromise, attempts, initialized >>
       ELSE IF InitInFlight
       THEN /\ awaits' = [awaits EXCEPT ![p] = initPromise]
            /\ UNCHANGED << initPromise, attempts, initialized >>
       ELSE /\ initPromise' = Len(attempts) + 1
            /\ awaits' = [awaits EXCEPT ![p] = Len(attempts) + 1]
            /\ IF ~enabled
               THEN /\ initialized' = TRUE
                    /\ attempts' = Append(attempts, "done")
               ELSE /\ initialized' = initialized
                    /\ attempts' = Append(attempts, "loading")
    /\ UNCHANGED << enabled, db, file, fk, clock, initWarn, done, batches,
                    analyzer, vr, helpers >>

\* An attempt resumes after `await this.loadDatabase()` and runs to its end.
InitResume(a, outcome) ==
    /\ a \in 1..Len(attempts)
    /\ attempts[a] = "loading"
    /\ CASE outcome = "no_driver" ->
              /\ enabled' = FALSE
              /\ initialized' = TRUE
              /\ initWarn' = "not_installed"
              /\ attempts' = [attempts EXCEPT ![a] = "done"]
              /\ UNCHANGED << db, runs, results, clock >>
         [] outcome \in { "mkdir_fail", "open_fail", "schema_fail" } ->
              /\ db' = IF outcome = "schema_fail" THEN "open" ELSE db
              /\ enabled' = initializeCatch.enabled
              /\ initialized' = initializeCatch.initialized
              /\ initWarn' = initializeCatch.initWarn
              /\ attempts' = [attempts EXCEPT ![a] = initializeCatch.attempt]
              /\ UNCHANGED << runs, results, clock >>
         [] outcome = "ok" ->
              \E c \in cleanup("open", enabled) :
                /\ db' = "open"
                /\ runs' = c.runs
                /\ results' = c.results
                /\ now' = c.now
                /\ ticks' = ticks + (c.now - now)
                /\ initWarn' = IF c.end = "failed" THEN "cleanup_failed"
                                ELSE initWarn
                /\ initialized' = TRUE
                /\ attempts' = [attempts EXCEPT ![a] = "done"]
                /\ UNCHANGED enabled
    /\ UNCHANGED << initPromise, nextRunId, nextResultId, fk, pc, awaits,
                    done, batches, analyzer, vr, helpers >>

\* the promise a caller awaits is settled: initialize() returned at once (0),
\* or the attempt it awaits has ended
SettledOnSuccess(a) == IF a = 0 THEN TRUE ELSE attempts[a] = "done" /\ enabled
Settled(a) == IF a = 0 THEN TRUE ELSE attempts[a] # "loading"
Rejected(a) == IF a = 0 THEN FALSE ELSE attempts[a] = "rejected"

\* A caller resumes after `await this.initialize()` and runs the body of its
\* operation to the return.
Resume(p) ==
    /\ pc[p] = "waiting"
    /\ Settled(awaits[p])
    /\ pc' = [pc EXCEPT ![p] = "returned"]
    /\ IF Rejected(awaits[p])
       THEN /\ \E o \in Ops : done' = Done(o, RetThrown, "none")
            /\ UNCHANGED << file, batches >>
       ELSE \E o \in Ops : \E d \in Body(o) :
              /\ done' = Done(o, d.ret, d.warn)
              /\ runs' = d.runs
              /\ results' = d.results
              /\ nextRunId' = d.nextRunId
              /\ nextResultId' = d.nextResultId
              /\ batches' = IF RunsTransaction(o)
                            THEN Append(batches, Len(o.tests))
                            ELSE batches
    /\ UNCHANGED << index, fk, clock, attempts, initWarn, awaits, analyzer, vr, helpers >>

\* A caller calls the public, synchronous cleanup().
Cleanup(p) ==
    /\ pc[p] = "idle"
    /\ \E c \in cleanup(db, enabled) :
         /\ runs' = c.runs
         /\ results' = c.results
         /\ now' = c.now
         /\ ticks' = ticks + (c.now - now)
         /\ done' = Done(NoArgs("cleanup"), RetUndefined,
                         IF c.end = "failed" THEN "cleanup_failed" ELSE "none")
    /\ pc' = [pc EXCEPT ![p] = "returned"]
    /\ UNCHANGED << index, nextRunId, nextResultId, fk, attempts, initWarn,
                    awaits, batches, analyzer, vr, helpers >>

\* A caller calls close().
Close(p) ==
    /\ pc[p] = "idle"
    /\ db' = IF db # "null" THEN "closed" ELSE db
    /\ done' = Done(NoArgs("close"), RetUndefined, "none")
    /\ pc' = [pc EXCEPT ![p] = "returned"]
    /\ UNCHANGED << enabled, initialized, initPromise, file, fk, clock,
                    attempts, initWarn, awaits, batches, analyzer, vr, helpers >>

\* The clock advances.
Tick ==
    /\ ticks < MaxTicks
    /\ ticks' = ticks + 1
    /\ now' = now + 1
    /\ UNCHANGED << index, file, fk, attempts, initWarn, pc, awaits, done,
                    batches, analyzer, vr, helpers >>

(***************************************************************************)
(* RootCauseAnalyzer.  An error message is modelled as the sequence of the *)
(* pieces of text it is made of, and a regular expression as the predicate *)
(* on such sequences that it decides.  Failure objects are told apart by   *)
(* their position in the batch, which is also their test name f.t.         *)
(***************************************************************************)
\* \w+
Words == { "name", "age" }
\* \d+
Digits == { "2", "3" }

UndefinedPrefix == "Cannot read properties of undefined (reading '"
NullPrefix == "Cannot read properties of null (reading '"

MsgUndefined(w) == << UndefinedPrefix, w, "')" >>
MsgNull(w) == << NullPrefix, w, "')" >>
MsgAssertEqual == << "AssertionError: ", "expected ", "1", " to equal ", "2" >>
MsgLength ==
    << "expected ", "[]", " to have a length of ", "3", " but got ", "2" >>
MsgAssertTimeout == << "AssertionError: ", "timed out" >>
MsgNotFunction == << "foo", " is not a function" >>
MsgOther == << "boom" >>
\* f.e?.msg is undefined or ''
NoMsg == << >>

Messages ==
    { MsgUndefined("name"), MsgUndefined("age"), MsgNull("name"),
      MsgAssertEqual, MsgLength, MsgAssertTimeout, MsgNotFunction, MsgOther,
      NoMsg }

\* String.prototype.match: null, or the capture groups of the first match
NoMatch == [ok |-> FALSE, groups |-> << >>]
Match(gs) == [ok |-> TRUE, groups |-> gs]

Least(S) == CHOOSE i \in S : \A j \in S : i <= j
Greatest(S) == CHOOSE i \in S : \A j \in S : i >= j

\* /<prefix>(\w+)'\)/
MatchReading(prefix, msg) ==
    LET at == { i \in 1..(Len(msg) - 2) :
                  msg[i] = prefix /\ msg[i + 1] \in Words /\ msg[i + 2] = "')" }
    IN IF at = { } THEN NoMatch ELSE Match(<< << msg[Least(at) + 1] >> >>)

\* /expected .+ to (?:be|equal) .+/i
MatchTypeMismatch(msg) ==
    IF \E i, j \in 1..Len(msg) :
         /\ msg[i] = "expected "
         /\ i + 1 < j
         /\ msg[j] \in { " to be ", " to equal " }
         /\ j < Len(msg)
    THEN Match(<< >>) ELSE NoMatch

\* /expected .+ to have a length of (\d+) but got (\d+)/i
MatchArrayLength(msg) ==
    LET at == { j \in 1..(Len(msg) - 3) :
                  /\ \E i \in 1..(j - 2) : msg[i] = "expected "
                  /\ msg[j] = " to have a length of "
                  /\ msg[j + 1] \in Digits
                  /\ msg[j + 2] = " but got "
                  /\ msg[j + 3] \in Digits }
    IN IF at = { } THEN NoMatch
       ELSE LET j == Greatest(at)
            IN Match(<< << msg[j + 1] >>, << msg[j + 3] >> >>)

\* /<a piece of text>/: the message holds one of the pieces
MatchAny(pieces, msg) ==
    IF \E i \in 1..Len(msg) : msg[i] \in pieces THEN Match(<< >>) ELSE NoMatch

\* /(.+)<suffix>/: the greedy group takes all of the text before the last
\* occurrence of the suffix
MatchBefore(suffix, msg) ==
    LET at == { i \in 2..Len(msg) : msg[i] = suffix }
    IN IF at = { } THEN NoMatch
       ELSE Match(<< SubSeq(msg, 1, Greatest(at) - 1) >>)

\* a catalog in descending order of confidence
PatternNamesByConfidence ==
    << "undefined_property_access", "null_property_access", "not_a_function",
       "undefined_reference", "array_length", "timeout", "type_mismatch",
       "assertion_error" >>

\* the catalog, in the order getPatternMatchers returns it
PatternNames ==
    << "undefined_property_access", "null_property_access", "type_mismatch",
       "array_length", "assertion_error", "timeout", "not_a_function",
       "undefined_reference" >>

\* pattern.regex applied to a message
RegexMatch(name, msg) ==
    CASE name = "undefined_property_access" -> MatchReading(UndefinedPrefix, msg)
      [] name = "null_property_access" -> MatchReading(NullPrefix, msg)
      [] name = "type_mismatch" -> MatchTypeMismatch(msg)
      [] name = "array_length" -> MatchArrayLength(msg)
      [] name = "assertion_error" -> MatchAny({ "AssertionError: " }, msg)
      [] name = "timeout" -> MatchAny({ "timeout", "timed out" }, msg)
      [] name = "not_a_function" -> MatchBefore(" is not a function", msg)
      [] name = "undefined_reference" -> MatchBefore(" is not defined", msg)

\* pattern.confidence, in hundredths
PatternConfidence(name) ==
    CASE name \in { "undefined_property_access", "null_property_access",
                    "not_a_function", "undefined_reference" } -> 95
      [] name = "array_length" -> 90
      [] name = "timeout" -> 85
      [] name = "type_mismatch" -> 75
      [] name = "assertion_error" -> 60

\* the confidence of the group of ungrouped failures, in hundredths
CatchAllConfidence == 30
CatchAllPattern == << "Various unrelated errors" >>

\* pattern.analyze(matches): the pattern text of the group, built from the
\* capture groups of the first match; evidence holds matches.length
PatternAnalyze(name, first, n) ==
    [ pattern |->
        CASE name = "undefined_property_access" ->
               << "Accessing property '" >> \o first.groups[1]
                 \o << "' on undefined object" >>
          [] name = "null_property_access" ->
               << "Accessing property '" >> \o first.groups[1]
                 \o << "' on null object" >>
          [] name = "type_mismatch" ->
               << "Type or value mismatch in assertions" >>
          [] name = "array_length" ->
               << "Array length mismatch (expected " >> \o first.groups[1]
                 \o << ", got " >> \o first.groups[2] \o << ")" >>
          [] name = "assertion_error" -> << "General assertion failures" >>
          [] name = "timeout" -> << "Test timeout errors" >>
          [] name \in { "not_a_function", "undefined_reference" } ->
               << "'" >> \o first.groups[1]
                 \o << IF name = "not_a_function" THEN "' is not a function"
                       ELSE "' is not defined" >>,
      evidence |-> n ]

\* a loop that forgets to mark the failures of a group
MarkNothing(matched, ms) == matched

\* matches.forEach(m => matched.add(m.failure))
MarkMatched(matched, ms) == matched \cup { ms[i] : i \in 1..Len(ms) }

\* the positions 1..n as a sequence
Positions(n) == [i \in 1..n |-> i]

\* a threshold that accepts any match
atLeastOne(n, mgs) == n >= 1

\* matches.length >= this.minGroupSize
atLeastMinGroupSize(n, mgs) == n >= mgs

\* the loop of groupByPattern from the k-th pattern on: groups built and
\* failures matched so far
RECURSIVE TryPatterns(_, _, _, _, _)
TryPatterns(fs, mgs, k, groups, matched) ==
    IF k > Len(PatternNames) THEN [groups |-> groups, matched |-> matched]
    ELSE
      LET name == PatternNames[k]
          matches == SelectSeq(Positions(Len(fs)),
                       LAMBDA i : i \notin matched
                                  /\ RegexMatch(name, fs[i].msg).ok)
      IN IF atLeastMinGroupSize(Len(matches), mgs)
         THEN LET g == PatternAnalyze(name,
                         RegexMatch(name, fs[matches[1]].msg), Len(matches))
                  group == [ pattern |-> g.pattern, evidence |-> g.evidence,
                             failures |-> matches,
                             confidence |-> PatternConfidence(name) ]
              IN TryPatterns(fs, mgs, k + 1, Append(groups, group),
                             MarkMatched(matched, matches))
         ELSE TryPatterns(fs, mgs, k + 1, groups, matched)

\* a grouping that adds the group of ungrouped failures unconditionally
groupByPatternAlwaysUngrouped(fs, mgs) ==
    LET tried == TryPatterns(fs, mgs, 1, << >>, { })
        ungrouped == SelectSeq(Positions(Len(fs)),
                               LAMBDA i : i \notin tried.matched)
    IN Append(tried.groups,
              [ pattern |-> CatchAllPattern, evidence |-> Len(ungrouped),
                failures |-> ungrouped,
                confidence |-> CatchAllConfidence ])

groupByPattern(fs, mgs) ==
    LET tried == TryPatterns(fs, mgs, 1, << >>, { })
        ungrouped == SelectSeq(Positions(Len(fs)),
                               LAMBDA i : i \notin tried.matched)
    IN IF Len(ungrouped) > 0
       THEN Append(tried.groups,
                   [ pattern |-> CatchAllPattern, evidence |-> Len(ungrouped),
                     failures |-> ungrouped,
                     confidence |-> CatchAllConfidence ])
       ELSE tried.groups

(***************************************************************************)
(* findCommonSourceFiles.  A frame's `at` is the sequence of the pieces of *)
(* text it is made of; f.stk is undefined, a string, or an array of frames.*)
(***************************************************************************)
NoStk == [k |-> "undefined"]
StkString == [k |-> "string"]
StkArray(frames) == [k |-> "array", frames |-> frames]

\* f.stk: the failures handed to analyze in the analyzer model have none
stkOf(f) == IF "stk" \in DOMAIN f THEN f.stk ELSE NoStk

NullMatch == << >>

\* frame.at.match(/(.+):\d+/), match[1]: .+ is greedy, so the text before
\* the last colon that a digit follows; null when there is none or no text
\* before it
matchFile(at) ==
    LET cuts == { i \in 2..(Len(at) - 1) : at[i] = ":" /\ at[i + 1] \in Digits }
    IN IF cuts = { } THEN NullMatch ELSE SubSeq(at, 1, Greatest(cuts) - 1)

\* the entry of sourceFilesPerTest of one failure
sourceFiles(f) ==
    LET stk == stkOf(f)
    IN IF stk.k # "array" THEN << >>
       ELSE LET kept == SelectSeq(stk.frames, LAMBDA frame : ~frame.test)
                matches == [ i \in 1..Len(kept) |-> matchFile(kept[i].at) ]
            IN SelectSeq(matches, LAMBDA m : m # NullMatch)

\* no deduplication
allFiles(files) == files

\* [...new Set(files)]: the first occurrence of each file, in order
uniqueFiles(files) ==
    LET firsts == { i \in 1..Len(files) :
                      \A j \in 1..(i - 1) : files[j] # files[i] }
        kept == SelectSeq([ i \in 1..Len(files) |-> i ],
                          LAMBDA i : i \in firsts)
    IN [ k \in 1..Len(kept) |-> files[kept[k]] ]

\* Object.entries(fileCounts) after the counting loop: one entry per file,
\* in the order the files were first counted, with the number of times the
\* loop counted it.  (File names are not integer-like keys.)
RECURSIVE fileCounts(_)
fileCounts(perTest) ==
    IF perTest = << >> THEN << >>
    ELSE LET n == Len(perTest)
             before == fileCounts(SubSeq(perTest, 1, n - 1))
             files == perTest[n]
             times(x) == Cardinality({ i \in 1..Len(files) : files[i] = x })
             bumped == [ k \in 1..Len(before) |->
                           [ file |-> before[k].file,
                             count |-> before[k].count + times(before[k].file) ] ]
             known == { before[k].file : k \in 1..Len(before) }
             firsts == { i \in 1..Len(files) :
                           /\ files[i] \notin known
                           /\ \A j \in 1..(i - 1) : files[j] # files[i] }
             new == SelectSeq([ i \in 1..Len(files) |-> i ],
                              LAMBDA i : i \in firsts)
         IN bumped \o [ k \in 1..Len(new) |->
                          [ file |-> files[new[k]],
                            count |-> times(files[new[k]]) ] ]

\* Array.prototype.sort((a, b) => b[1] - a[1]): a stable sort
RECURSIVE SortByCount(_)
SortByCount(s) ==
    IF s = << >> THEN << >>
    ELSE LET rest == SortByCount(Tail(s))
             e == Head(s)
             more == { i \in 1..Len(rest) : rest[i].count >= e.count }
             k == IF more = { } THEN 0 ELSE Greatest(more)
         IN SubSeq(rest, 1, k) \o << e >> \o SubSeq(rest, k + 1, Len(rest))

\* .slice(0, 3)
MaxSuspected == 3

\* Math.round((count / n) * 100)
percentage(count, n) == (200 * count + n) \div (2 * n)

findCommonSourceFiles(fs) ==
    IF Len(fs) = 0 THEN << >>
    ELSE LET perTest == [ i \in 1..Len(fs) |->
                            uniqueFiles(sourceFiles(fs[i])) ]
             recurring == SelectSeq(fileCounts(perTest),
                                    LAMBDA e : e.count > 1)
             sorted == SortByCount(recurring)
             top == SubSeq(sorted, 1,
                           IF Len(sorted) < MaxSuspected THEN Len(sorted)
                           ELSE MaxSuspected)
         IN [ k \in 1..Len(top) |->
                [ file |-> top[k].file, count |-> top[k].count,
                  percentage |-> percentage(top[k].count, Len(fs)) ] ]

\* A caller invokes findCommonSourceFiles(failures).
FindCommonSourceFiles ==
    /\ common.phase = "ready"
    /\ common' = [common EXCEPT !.phase = "found",
                                !.out = findCommonSourceFiles(common.failures)]
    /\ UNCHANGED << index, file, fk, clock, attempts, initWarn, pc, awaits,
                    done, batches, analyzer, vr, hashing >>

\* no sort: the groups stay in the order of the catalog
KeepOrder(s) == s

\* Array.prototype.sort((a, b) => b.confidence - a.confidence): a stable sort
RECURSIVE SortByConfidence(_)
SortByConfidence(s) ==
    IF s = << >> THEN << >>
    ELSE LET rest == SortByConfidence(Tail(s))
             g == Head(s)
             \* g goes before the first element of lower confidence
             lower == { i \in 1..Len(rest) : rest[i].confidence > g.confidence }
             k == IF lower = { } THEN 0 ELSE Greatest(lower)
         IN SubSeq(rest, 1, k) \o << g >> \o SubSeq(rest, k + 1, Len(rest))

analyze(fs, mgs) ==
    IF Len(fs) = 0 THEN << >>
    ELSE LET groups == groupByPattern(fs, mgs)
         IN SortByConfidence(
              [ i \in 1..Len(groups) |->
                  [ pattern |-> groups[i].pattern,
                    confidence |-> groups[i].confidence,
                    affectedTests |->
                      [ j \in 1..Len(groups[i].failures) |->
                          fs[groups[i].failures[j]].t ],
                    count |-> Len(groups[i].failures),
                    suspectedFiles |->
                      findCommonSourceFiles(
                        [ j \in 1..Len(groups[i].failures) |->
                            fs[groups[i].failures[j]] ]),
                    evidence |-> groups[i].evidence ] ])

\* A caller invokes analyze(failures).
Analyze ==
    /\ phase = "ready"
    /\ rootCauses' = analyze(failures, minGroupSize)
    /\ phase' = "analyzed"
    /\ UNCHANGED << index, file, fk, clock, attempts, initWarn, pc, awaits,
                    done, batches, minGroupSize, failures, summary, vr, helpers >>

\* getSummary(rootCauses): null for no group, else the first group's fields
NoSummary == [k |-> "null"]
getSummary(rcs) ==
    IF Len(rcs) = 0 THEN NoSummary
    ELSE [ k |-> "summary",
           totalPatterns |-> Len(rcs),
           topPattern |-> rcs[1].pattern,
           topConfidence |-> rcs[1].confidence,
           topAffectedCount |-> rcs[1].count ]

\* the caller asks for the summary of what analyze returned
GetSummary ==
    /\ phase = "analyzed"
    /\ summary' = getSummary(rootCauses)
    /\ phase' = "summarized"
    /\ UNCHANGED << index, file, fk, clock, attempts, initWarn, pc, awaits,
                    done, batches, minGroupSize, failures, rootCauses, vr, helpers >>

(***************************************************************************)
(* PersistentIndex.hashError.  An error message is the sequence of its     *)
(* characters.                                                             *)
(***************************************************************************)
\* the quote characters: apostrophe, double quote and backquote (the latter
\* two written by name)
DoubleQuote == "DQUOTE"
BackQuote == "BQUOTE"
Quotes == { "'", DoubleQuote, BackQuote }

\* the number of digits of s from position i on (\d+ is greedy)
RECURSIVE DigitsFrom(_, _)
DigitsFrom(s, i) ==
    IF i <= Len(s) /\ s[i] \in Digits THEN 1 + DigitsFrom(s, i + 1) ELSE 0

\* .replace(/:\d+:\d+/g, ':X:X')
RECURSIVE replaceLineCol(_)
replaceLineCol(s) ==
    IF s = << >> THEN << >>
    ELSE LET a == DigitsFrom(s, 2)
             b == IF a > 0 /\ a + 2 <= Len(s) /\ s[a + 2] = ":"
                  THEN DigitsFrom(s, a + 3) ELSE 0
         IN IF s[1] = ":" /\ a > 0 /\ b > 0
            THEN << ":", "X", ":", "X" >>
                   \o replaceLineCol(SubSeq(s, a + b + 3, Len(s)))
            ELSE << s[1] >> \o replaceLineCol(Tail(s))

\* .replace(/\d+/g, 'N')
RECURSIVE replaceNumbers(_)
replaceNumbers(s) ==
    IF s = << >> THEN << >>
    ELSE LET a == DigitsFrom(s, 1)
         IN IF a > 0
            THEN << "N" >> \o replaceNumbers(SubSeq(s, a + 1, Len(s)))
            ELSE << s[1] >> \o replaceNumbers(Tail(s))

\* .replace(/q[^q]*q/g, 'STR') for the quote character q: from a q to the
\* next q, whatever is between them
RECURSIVE replaceQuoted(_, _)
replaceQuoted(s, q) ==
    IF s = << >> THEN << >>
    ELSE LET closing == { j \in 2..Len(s) : s[j] = q }
         IN IF s[1] = q /\ closing # { }
            THEN << "S", "T", "R" >>
                   \o replaceQuoted(SubSeq(s, Least(closing) + 1, Len(s)), q)
            ELSE << s[1] >> \o replaceQuoted(Tail(s), q)

\* the normalized message
normalized(msg) ==
    replaceQuoted(
      replaceQuoted(
        replaceQuoted(replaceNumbers(replaceLineCol(msg)), "'"), DoubleQuote),
      BackQuote)

\* crypto.createHash('md5').update(text).digest('hex'): different digests for
\* different texts (collisions of MD5 are left out)
md5(text) == [md5 |-> text]
NoHash == [md5 |-> "null"]

\* hashError(error) for an error object with message msg
hashError(msg) == IF msg = << >> THEN NoHash ELSE md5(normalized(msg))

\* hashError is called on the two messages
HashErrors ==
    /\ hashing.phase = "ready"
    /\ hashing' = [hashing EXCEPT !.phase = "hashed",
                                  !.ha = hashError(hashing.a),
                                  !.hb = hashError(hashing.b)]
    /\ UNCHANGED << index, file, fk, clock, attempts, initWarn, pc, awaits,
                    done, batches, analyzer, vr, common >>

(***************************************************************************)
(* VitestReporter.onFinished and its use of the history store.  The store  *)
(* methods are async functions: what a call evaluates to, when it is not   *)
(* awaited, is a Promise object, whatever the store does later.            *)
(***************************************************************************)
\* JavaScript values the reporter handles, by kind
JsPromise == [k |-> "promise"]
JsArray(n) == [k |-> "array", length |-> n]

\* `if (v)`: objects are truthy
Truthy(v) == v.k \in { "promise", "array", "object" }
\* `v.length > 0`: a Promise has no length, and undefined > 0 is false
LengthPositive(v) == v.k = "array" /\ v.length > 0
\* `[...v]` and `v.map(...)` need an array
Iterable(v) == v.k = "array"
\* `v.find(...)` and `v.filter(...)` need an array
HasFind(v) == v.k = "array"

\* getTestHistory(failure.t, 5)
ReporterHistoryLimit == 5

\* the test records the reporter may hand to the store: failing and passing
FailingInputs == { x \in TestInputs : x.e # NoError }
PassingInputs == { x \in TestInputs : x.e = NoError }

\* VitestAdapter.convertFailure and convertPass, of a test (task) x
convertFailure(x) == [name |-> x.t, location |-> x.f, error |-> x.e]
convertPass(x) == [name |-> x.t, location |-> x.f]

\* SmartDiffEnhancer.enhance of a failure whose error has expected and
\* actual values: the failure with a field e added
withDiff(r) == [name |-> r.name, location |-> r.location, error |-> r.error,
                e |-> r.error]

\* p => ({ ...p, e: null })
withNullE(r) == [name |-> r.name, location |-> r.location, e |-> NoError]

\* what recordTestResults reads of a record: test.t, test.f and test.e, each
\* undefined when the record has no such field
asTest(r) ==
    [ t |-> IF "t" \in DOMAIN r THEN r.t ELSE UndefinedName,
      f |-> IF "f" \in DOMAIN r THEN r.f ELSE NoLocation,
      e |-> IF "e" \in DOMAIN r THEN r.e ELSE NoError ]

\* allTests, as recordTestResults reads it: the failures (with e when the
\* diff enhancer added it) and the passes
allTests(fails, passes, diff) ==
    [ i \in 1..Len(fails) |->
        asTest(IF diff THEN withDiff(convertFailure(fails[i]))
               ELSE convertFailure(fails[i])) ]
      \o [ i \in 1..Len(passes) |-> asTest(withNullE(convertPass(passes[i]))) ]

\* one store call the reporter made: the operation, the attempt its
\* `await this.initialize()` waits for, and what its body did when it ran
StoreCall(o, a) ==
    [op |-> o, awaits |-> a, state |-> "waiting", ret |-> RetPending,
     warn |-> "none"]

\* initialize() up to its first await, on the index fields s; awaits is the
\* attempt the caller then waits for (0: initialize returned at once)
initializeSync(s) ==
    IF s.initialized THEN [s EXCEPT !.awaits = 0]
    ELSE IF s.initPromise # 0 THEN [s EXCEPT !.awaits = s.initPromise]
    ELSE [ initialized |-> ~enabled,
           initPromise |-> Len(s.attempts) + 1,
           attempts |-> Append(s.attempts,
                               IF enabled THEN "loading" ELSE "done"),
           awaits |-> Len(s.attempts) + 1 ]

\* the store calls of one onFinished, in order, made on the index fields s:
\* each runs initialize() up to its first await
RECURSIVE MakeCalls(_, _, _)
MakeCalls(ops, s, made) ==
    IF ops = << >> THEN [s |-> s, calls |-> made]
    ELSE LET t == initializeSync(s)
         IN MakeCalls(Tail(ops), t, Append(made, StoreCall(Head(ops), t.awaits)))

\* step 7 of onFinished (persistent index tracking), given the value of
\* enhancedFailures: the store operations it invokes, in order, and whether
\* it throws
trackIndex(enhanced, fails, passes, diff) ==
    LET runId == JsPromise
        run == << NoArgs("recordTestRun") >>
    IN IF ~Truthy(runId) THEN [ops |-> run, threw |-> FALSE]
       \* const allTests = [...enhancedFailures, ...results.passes.map(...)]
       ELSE IF ~Iterable(enhanced) THEN [ops |-> run, threw |-> TRUE]
       ELSE LET record == << Op("recordTestResults", PromiseArg,
                                allTests(fails, passes, diff), "t1", 0,
                                NoError) >>
                history == JsPromise
                flaky == JsPromise
                \* failure.t of the first failure
                t == allTests(fails, passes, diff)[1].t
                query == << Op("getTestHistory", 0, << >>, t,
                               ReporterHistoryLimit, NoError),
                            Op("getFlakiness", 0, << >>, t, 0,
                               NoError) >>
            IN IF Len(fails) = 0
               THEN [ops |-> run \o record, threw |-> FALSE]
               \* if (history.length > 0 || flaky) { ... history.find(...) }
               ELSE IF (LengthPositive(history) \/ Truthy(flaky))
                       /\ ~HasFind(history)
               THEN [ops |-> run \o record \o query, threw |-> TRUE]
               ELSE [ops |-> run \o record \o query, threw |-> FALSE]

\* onFinished from the index tracking to `await this.logger.finalize(summary)`,
\* or to the exception that ends it.
OnFinished ==
    /\ vr.pc = "ready"
    /\ LET s0 == [ initialized |-> initialized, initPromise |-> initPromise,
                   attempts |-> attempts, awaits |-> 0 ]
           tr == IF vr.hasIndex
                 THEN trackIndex(vr.enhanced, vr.fails, vr.passes, vr.diff)
                 ELSE [ops |-> << >>, threw |-> FALSE]
           m == MakeCalls(tr.ops, s0, << >>)
       IN /\ initialized' = m.s.initialized
          /\ initPromise' = m.s.initPromise
          /\ attempts' = m.s.attempts
          /\ vr' = [vr EXCEPT !.pc = IF tr.threw THEN "threw" ELSE "finalizing",
                             !.calls = m.calls]
    /\ UNCHANGED << enabled, db, file, fk, clock, initWarn, pc, awaits, done,
                    batches, analyzer, helpers >>

\* The body of a store call the reporter made runs, after its
\* `await this.initialize()`.  Continuations of one promise run in the order
\* in which they were registered.
ReporterCallResumes(i) ==
    /\ i \in 1..Len(vr.calls)
    /\ vr.calls[i].state = "waiting"
    /\ Settled(vr.calls[i].awaits)
    /\ \A j \in 1..(i - 1) :
         vr.calls[j].awaits = vr.calls[i].awaits
           => vr.calls[j].state = "returned"
    /\ IF Rejected(vr.calls[i].awaits)
       THEN /\ vr' = [vr EXCEPT !.calls[i].state = "returned",
                               !.calls[i].ret = RetThrown]
            /\ done' = Done(vr.calls[i].op, RetThrown, "none")
            /\ UNCHANGED << file, batches >>
       ELSE \E d \in Body(vr.calls[i].op) :
              /\ vr' = [vr EXCEPT !.calls[i].state = "returned",
                                 !.calls[i].ret = d.ret,
                                 !.calls[i].warn = d.warn]
              /\ done' = Done(vr.calls[i].op, d.ret, d.warn)
              /\ runs' = d.runs
              /\ results' = d.results
              /\ nextRunId' = d.nextRunId
              /\ nextResultId' = d.nextResultId
              /\ batches' = IF RunsTransaction(vr.calls[i].op)
                            THEN Append(batches, Len(vr.calls[i].op.tests))
                            ELSE batches
    /\ UNCHANGED << index, fk, clock, attempts, initWarn, pc, awaits,
                    analyzer, helpers >>

\* logger.finalize resolved: onFinished prints the summary, calls
\* this.enhancers.index.close() and returns.
OnFinishedCloses ==
    /\ vr.pc = "finalizing"
    /\ vr' = [vr EXCEPT !.pc = "finished"]
    /\ db' = IF vr.hasIndex /\ db # "null" THEN "closed" ELSE db
    /\ UNCHANGED << enabled, initialized, initPromise, file, fk, clock,
                    attempts, initWarn, pc, awaits, done, batches, analyzer, helpers >>

(***************************************************************************)
(* The database file as earlier sessions left it: either empty, or holding *)
(* runs recorded 45, 30, 10, 7 and 0 days before the start day (at the     *)
(* first slot of the day), each with the one entry of its batch.           *)
(***************************************************************************)
PreAges == << 45, 30, 10, 7, 0 >>
PreTests ==
    << [t |-> "t1", f |-> Location("a.test.js", "7"), e |-> "h1"],
       [t |-> "t1", f |-> Location("a.test.js", "7"), e |-> NoError],
       [t |-> "t1", f |-> Location("a.test.js", "7"), e |-> "h1"],
       [t |-> "t1", f |-> Location("b.test.js", "9"), e |-> NoError],
       [t |-> "t1", f |-> Location("b.test.js", "9"), e |-> "h1"] >>
PreRun(i) ==
    [id |-> i, timestamp |-> toISOString((StartDay - PreAges[i]) * SlotsPerDay)]
PreRow(i) ==
    [ id |-> i, run_id |-> i, test_name |-> PreTests[i].t,
      file |-> fileOf(PreTests[i].f),
      status |-> IF PreTests[i].e # NoError THEN "fail" ELSE "pass",
      error_hash |-> PreTests[i].e, b |-> i ]
PreSets == { { }, DOMAIN PreAges }

\* the store before its first use
InitStore ==
    /\ enabled \in BOOLEAN
    /\ initialized = FALSE
    /\ initPromise = 0
    /\ db = "null"
    /\ \E pre \in PreSets :
         /\ runs = { PreRun(i) : i \in pre }
         /\ results = { PreRow(i) : i \in pre }
    /\ nextRunId = Len(PreAges) + 1
    /\ nextResultId = Len(PreAges) + 1
    /\ fk \in BOOLEAN
    \* the last slot of the start day
    /\ now = StartDay * SlotsPerDay + (SlotsPerDay - 1)
    /\ ticks = 0
    /\ attempts = << >>
    /\ initWarn = "none"
    /\ pc = [p \in Procs |-> "idle"]
    /\ awaits = [p \in Procs |-> 0]
    /\ done = Done(NoArgs("none"), RetPending, "none")
    /\ batches = [i \in 1..Len(PreAges) |-> 1]

\* new RootCauseAnalyzer(options): options.minGroupSize || 2
MinGroupSizeOf(option) == IF option = 0 THEN DefaultMinGroupSize ELSE option

\* the failure batches handed to analyze
FailureBatches ==
    UNION { { [i \in 1..n |-> [t |-> i, msg |-> ms[i]]] : ms \in [1..n -> Messages] }
            : n \in 0..MaxFailures }

\* an analyzer about to be handed a batch
InitAnalyzer ==
    /\ minGroupSize \in { MinGroupSizeOf(o) : o \in 0..MaxMinGroupSize }
    /\ failures \in FailureBatches
    /\ rootCauses = << >>
    /\ phase = "ready"
    /\ summary = NoSummary

\* no analyzer is used
NoAnalyzer ==
    /\ minGroupSize = DefaultMinGroupSize
    /\ failures = << >>
    /\ rootCauses = << >>
    /\ phase = "idle"
    /\ summary = NoSummary

(***************************************************************************)
(* The history store and its callers.                                      *)
(***************************************************************************)
\* no reporter is used
NoReporter ==
    vr = [pc |-> "idle", hasIndex |-> FALSE, enhanced |-> JsArray(0),
          diff |-> FALSE, fails |-> << >>, passes |-> << >>, calls |-> << >>]

\* hashError and findCommonSourceFiles are not called
NoHelpers ==
    /\ hashing = [phase |-> "idle"]
    /\ common = [phase |-> "idle"]

Init == InitStore /\ NoAnalyzer /\ NoReporter /\ NoHelpers

Next ==
    \/ \E p \in Procs : Call(p)
    \/ \E a \in 1..Len(attempts) : \E outcome \in InitOutcomes :
         InitResume(a, outcome)
    \/ \E p \in Procs : Resume(p)
    \/ \E p \in Procs : Cleanup(p)
    \/ \E p \in Procs : Close(p)
    \/ Tick

Spec == Init /\ [][Next]_vars

\* What the event loop guarantees: the promise of `await import(...)` in
\* loadDatabase settles (the import resolves, or fails and is caught), and
\* the rest of the attempt is synchronous; the continuation of a caller
\* awaiting a settled promise is run.
EventLoop ==
    /\ WF_vars(\E a \in 1..Len(attempts) : \E outcome \in InitOutcomes :
                 InitResume(a, outcome))
    /\ \A p \in Procs : WF_vars(Resume(p))

\* a store on a new database file, under the event loop
InitLive == Init /\ runs = { } /\ fk

SpecLive == InitLive /\ [][Next]_vars /\ EventLoop

(***************************************************************************)
(* The analyzer alone, handed one batch.                                   *)
(***************************************************************************)
InitRCA ==
    /\ InitAnalyzer
    /\ NoReporter
    /\ NoHelpers
    /\ enabled = FALSE
    /\ initialized = FALSE
    /\ initPromise = 0
    /\ db = "null"
    /\ runs = { }
    /\ results = { }
    /\ nextRunId = 1
    /\ nextResultId = 1
    /\ fk = TRUE
    /\ now = StartDay * SlotsPerDay
    /\ ticks = 0
    /\ attempts = << >>
    /\ initWarn = "none"
    /\ pc = [p \in Procs |-> "idle"]
    /\ awaits = [p \in Procs |-> 0]
    /\ done = Done(NoArgs("none"), RetPending, "none")
    /\ batches = << >>

NextRCA == Analyze \/ GetSummary

SpecRCA == InitRCA /\ [][NextRCA]_vars

(***************************************************************************)
(* hashError on pairs of messages that differ in volatile details only.    *)
(* A message shape is a sequence of parts: a character of fixed text, a    *)
(* number, a :line:col pair, or a string literal in one of the quotes.     *)
(* Two messages of one shape differ only in the numbers, the line:col      *)
(* pairs and the contents of the literals.                                 *)
(***************************************************************************)
\* characters of fixed text
TextChars == { "a", ":", "'" }
\* what a string literal may hold between its quotes: one character that is
\* not its own quote
Contents(q) == { "a", "2", "'" } \ { q }

Parts ==
    { [k |-> "text", c |-> c] : c \in TextChars }
      \cup { [k |-> "number", c |-> ""], [k |-> "linecol", c |-> ""] }
      \cup { [k |-> "string", c |-> q] : q \in Quotes }

\* the texts a part may stand for
TextsOf(part) ==
    CASE part.k = "text" -> { << part.c >> }
      [] part.k = "number" -> { << "2" >>, << "3", "2" >> }
      [] part.k = "linecol" -> { << ":", "2", ":", "3" >>,
                                 << ":", "3", "2", ":", "2" >> }
      [] part.k = "string" ->
           { << part.c, x, part.c >> : x \in Contents(part.c) }

Shapes == UNION { [1..n -> Parts] : n \in 0..MaxParts }

\* the messages of a shape
RECURSIVE MessagesOf(_)
MessagesOf(shape) ==
    IF shape = << >> THEN { << >> }
    ELSE { x \o y : x \in TextsOf(Head(shape)), y \in MessagesOf(Tail(shape)) }

InitHashing ==
    /\ \E shape \in Shapes : \E a, b \in MessagesOf(shape) :
         hashing = [phase |-> "ready", shape |-> shape, a |-> a, b |-> b,
                    ha |-> NoHash, hb |-> NoHash]
    /\ common = [phase |-> "idle"]

\* no store is used
NoStore ==
    /\ enabled = FALSE
    /\ initialized = FALSE
    /\ initPromise = 0
    /\ db = "null"
    /\ runs = { }
    /\ results = { }
    /\ nextRunId = 1
    /\ nextResultId = 1
    /\ fk = TRUE
    /\ now = StartDay * SlotsPerDay
    /\ ticks = 0
    /\ attempts = << >>
    /\ initWarn = "none"
    /\ pc = [p \in Procs |-> "idle"]
    /\ awaits = [p \in Procs |-> 0]
    /\ done = Done(NoArgs("none"), RetPending, "none")
    /\ batches = << >>

InitHash == NoStore /\ NoAnalyzer /\ NoReporter /\ InitHashing

NextHash == HashErrors

SpecHash == InitHash /\ [][NextHash]_vars

(***************************************************************************)
(* findCommonSourceFiles alone, handed the failures of one group.          *)
(***************************************************************************)
SourceFiles == << "src/a.js", "src/b.js", "src/c.js", "src/d.js" >>
TestFile == "a.test.js"

\* what enhanceFrame makes of a frame: at is `${shortenPath(file)}:${line}`
Frame(path, line, test) == [at |-> path \o << ":", line >>, test |-> test]

\* a stack through the source files of S, none marked as a test frame
Through(S) ==
    LET files == SelectSeq(SourceFiles, LAMBDA x : x \in S)
    IN [ i \in 1..Len(files) |-> Frame(<< files[i] >>, "2", FALSE) ]

TestFrame == Frame(<< TestFile >>, "3", TRUE)

Stks ==
    { NoStk, StkString }
    \cup { StkArray(Through(S)) :
             S \in { { }, { "src/a.js" }, { "src/a.js", "src/b.js" },
                     { "src/a.js", "src/b.js", "src/c.js" },
                     { "src/a.js", "src/b.js", "src/c.js", "src/d.js" },
                     { "src/b.js", "src/c.js", "src/d.js" } } }
    \cup { StkArray(<< TestFrame >> \o Through(S)) :
             S \in { { "src/a.js" },
                     { "src/a.js", "src/b.js", "src/c.js", "src/d.js" } } }
    \cup { \* the same file at two lines
           StkArray(<< Frame(<< "src/a.js" >>, "2", FALSE),
                       Frame(<< "src/a.js" >>, "3", FALSE) >>),
           \* the files in another order
           StkArray(<< Frame(<< "src/d.js" >>, "2", FALSE),
                       Frame(<< "src/a.js" >>, "2", FALSE) >>),
           \* a source file marked as a test frame
           StkArray(<< Frame(<< "src/a.js" >>, "2", TRUE),
                       Frame(<< "src/b.js" >>, "2", FALSE) >>),
           \* the test file of another failure, not marked
           StkArray(<< Frame(<< TestFile >>, "3", FALSE) >>),
           \* a frame whose at has no line
           StkArray(<< [at |-> << "native" >>, test |-> FALSE],
                       Frame(<< "src/b.js" >>, "2", FALSE) >>),
           \* a path with a port in it
           StkArray(<< Frame(<< "http://h", ":", "3", "/x.js" >>, "2", FALSE) >>) }

MaxGroup == 3

InitCommon ==
    /\ hashing = [phase |-> "idle"]
    /\ \E n \in 0..MaxGroup : \E stks \in [1..n -> Stks] :
         common = [phase |-> "ready",
                   failures |-> [ i \in 1..n |-> [t |-> i, stk |-> stks[i]] ],
                   out |-> << >>]

InitCSF == NoStore /\ NoAnalyzer /\ NoReporter /\ InitCommon

NextCSF == FindCommonSourceFiles

SpecCSF == InitCSF /\ [][NextCSF]_vars

(***************************************************************************)
(* The reporter, at the end of one test run, and the store it uses.        *)
(***************************************************************************)
\* the runs a reporter may have to report: their failing and passing tests
ReporterRuns ==
    { [fails |-> f, passes |-> p] :
        f \in UNION { [1..n -> FailingInputs] : n \in 0..MaxBatch },
        p \in UNION { [1..n -> PassingInputs] : n \in 0..1 } }

\* onInit has run.  createEnhancers either returned the enhancers (index is
\* a PersistentIndex when persistentIndex.enabled; diff tells whether the
\* diff enhancer gave the failures a field e) or, being an async
\* function that onInit does not await, a Promise without any of them; the
\* failures reach the index tracking as an array or, when the async
\* links.enhanceAll was not awaited, as a Promise.
InitReporter ==
    \E h \in BOOLEAN, d \in BOOLEAN, r \in ReporterRuns :
      \E e \in { JsArray(Len(r.fails)), JsPromise } :
        vr = [pc |-> "ready", hasIndex |-> h, enhanced |-> e, diff |-> d,
              fails |-> r.fails, passes |-> r.passes, calls |-> << >>]

InitVR == InitStore /\ NoAnalyzer /\ InitReporter /\ NoHelpers

NextVR ==
    \/ OnFinished
    \/ \E a \in 1..Len(attempts) : \E outcome \in InitOutcomes :
         InitResume(a, outcome)
    \/ \E i \in 1..Len(vr.calls) : ReporterCallResumes(i)
    \/ OnFinishedCloses

SpecVR == InitVR /\ [][NextVR]_vars

(***************************************************************************)
(* Properties.                                                             *)
(***************************************************************************)
\* the step in which a caller's operation body runs and returns
ResumeStep == \E p \in Procs : pc[p] = "waiting" /\ pc'[p] = "returned"

\* the step in which a caller's public cleanup() runs
CleanupStep ==
    /\ \E p \in Procs : pc[p] = "idle" /\ pc'[p] = "returned"
    /\ done'.op.name = "cleanup"

StatusOf(test) == IF test.e # NoError THEN "fail" ELSE "pass"

\* the rows a successful recordTestResults(o.runId, o.tests) adds
BatchRows(o, added) ==
    /\ Cardinality(added) = Len(o.tests)
    /\ \A i \in 1..Len(o.tests) :
         \E r \in added : /\ r.id = nextResultId + i - 1
                          /\ r.run_id = o.runId
                          /\ r.test_name = o.tests[i].t
                          /\ r.status = StatusOf(o.tests[i])
                          /\ r.error_hash = o.tests[i].e

\* C1: recordTestResults is all-or-nothing.  In the step in which the call
\* runs and returns, normally or after an insert error on any entry, nothing
\* stored before is lost, and either no row is added or exactly the rows of
\* the whole batch are; after a logged failure no row is added.
C1_AllOrNothing ==
    [][ (ResumeStep /\ done'.op.name = "recordTestResults") =>
          LET added == results' \ results
          IN /\ results \subseteq results'
             /\ runs' = runs
             /\ added = { } \/ BatchRows(done'.op, added)
             /\ done'.warn # "none" => added = { }
      ]_vars

\* C1 witness: a batch of two entries hit an insert error on an open
\* database (nothing of it is stored), the run it names being stored.
C1_Witness ==
    /\ done.op.name = "recordTestResults"
    /\ Len(done.op.tests) = 2
    /\ done.op.runId \in RunIds(runs)
    /\ done.warn = "record_results_failed"
    /\ db = "open"
    /\ enabled

\* C2: initialize is single-flight.  The initialization body is started at
\* most once; a caller's operation runs only once the store is initialized
\* and no attempt is still in progress, and never throws; and once the store
\* is initialized it stays so with the same enabled/disabled outcome, which
\* is therefore the one every caller sees.
C2_SingleFlight ==
    [][ /\ Len(attempts') <= 1
        /\ ResumeStep =>
             /\ initialized
             /\ \A a \in 1..Len(attempts) : attempts[a] = "done"
             /\ done'.ret # RetThrown
        /\ initialized => (initialized' /\ enabled' = enabled)
      ]_vars

\* C2 witness: two callers made their first call while the store was not
\* initialized, both awaited the one attempt (which loaded the driver), and
\* both have returned.
C2_Witness ==
    /\ \A p \in Procs : awaits[p] = 1 /\ pc[p] = "returned"
    /\ Len(attempts) = 1
    /\ db = "open"

\* how many times test t is listed in the affectedTests of the groups
AffectedCount(rcs, t) ==
    Cardinality({ << g, j >> \in (1..Len(rcs)) \X (1..MaxFailures + 1) :
                    j <= Len(rcs[g].affectedTests)
                    /\ rcs[g].affectedTests[j] = t })

RECURSIVE SumOfCount(_)
SumOfCount(rcs) ==
    IF rcs = << >> THEN 0 ELSE Head(rcs).count + SumOfCount(Tail(rcs))

\* C3: the groups analyze returns partition the batch.  Every failure of the
\* batch is listed in exactly one group (so in at most one named group, and
\* in the catch-all only if in no named one), every group's count is the
\* number of failures it lists, and the counts add up to the size of the
\* batch.
C3_GroupsPartition ==
    phase = "analyzed" =>
      /\ \A i \in 1..Len(failures) : AffectedCount(rootCauses, failures[i].t) = 1
      /\ \A g \in 1..Len(rootCauses) :
           /\ rootCauses[g].count = Len(rootCauses[g].affectedTests)
           /\ \A j \in 1..rootCauses[g].count :
                \E i \in 1..Len(failures) :
                  failures[i].t = rootCauses[g].affectedTests[j]
      /\ SumOfCount(rootCauses) = Len(failures)

\* C3 witness: a batch of three failures, two of which match both the
\* type-mismatch and the assertion-error pattern, analyzed into a named
\* group and the catch-all.
C3_Witness ==
    /\ phase = "analyzed"
    /\ Len(failures) = 3
    /\ Cardinality({ i \in 1..3 : failures[i].msg = MsgAssertEqual }) = 2
    /\ Len(rootCauses) = 2
    /\ rootCauses[2].pattern = CatchAllPattern

\* recordTestResults returned last, and now getTestHistory(t, limit >= 1)
\* runs on the enabled store for a test t of that batch
ReadAfterWrite ==
    /\ ResumeStep
    /\ enabled /\ db = "open"
    /\ done.op.name = "recordTestResults"
    /\ done'.op.name = "getTestHistory"
    /\ done'.op.limit >= 1
    /\ \E i \in 1..Len(done.op.tests) : done.op.tests[i].t = done'.op.t

\* the read returns an entry of the run written, with the status recorded
ReadShowsWrite ==
    \E j \in 1..Len(done'.ret.rows) :
      /\ done'.ret.rows[j].run_id = done.op.runId
      /\ done'.ret.rows[j].test_name = done'.op.t
      /\ \E i \in 1..Len(done.op.tests) :
           /\ done.op.tests[i].t = done'.op.t
           /\ done'.ret.rows[j].status = StatusOf(done.op.tests[i])

\* the stored entries of test t whose run is not older than run runId
NotOlderThanRun(t, runId) ==
    { r \in Joined(t) :
        ~TextLess(r.timestamp, RunOf(runs, runId).timestamp) }

\* C4 as stated: recordTestResults(runId, batch) followed immediately by
\* getTestHistory(t, limit >= 1), t a test of the batch, returns an entry of
\* that run with the status just recorded for t.
C4_ReadAfterWrite_Stated == [][ ReadAfterWrite => ReadShowsWrite ]_vars

\* C4 amended: the read returns such an entry provided the write was
\* recorded (runId is a stored run and no insert failed), the query does not
\* fail, and limit is at least the number of stored entries of t whose run
\* is not older than the run written.
C4_ReadAfterWrite ==
    [][ ( /\ ReadAfterWrite
          /\ done.warn = "none"
          /\ done.op.runId \in RunIds(runs)
          /\ done'.warn = "none"
          /\ done'.op.limit
               >= Cardinality(NotOlderThanRun(done'.op.t, done.op.runId)) )
        => ReadShowsWrite ]_vars

\* C4 witness: getTestHistory("t2", 1) returned the one stored entry of t2,
\* which the recordTestResults before it had just stored.
C4_Witness ==
    /\ done.op.name = "getTestHistory"
    /\ done.op.t = "t2"
    /\ done.op.limit = 1
    /\ Cardinality(Joined("t2")) = 1
    /\ Len(done.ret.rows) = 1
    /\ done.ret.rows[1].id > Len(PreAges)
    /\ \A p \in Procs : pc[p] = "returned"

\* a query runs in this step
ReadStep ==
    /\ ResumeStep
    /\ done'.op.name \in { "getTestHistory", "getFlakiness",
                           "findSimilarFailures" }

\* the rows of the b-th batch that are stored
RowsOfBatch(b) == { r \in results : r.b = b }

\* C5: no dirty reads.  Whenever a query runs, under any interleaving of the
\* callers, the database it reads holds of every batch handed to
\* recordTestResults so far either all of the rows or none (cleanup removes
\* a run's rows together), and every row getTestHistory returns belongs to a
\* batch that is stored in full.
C5_NoDirtyReads ==
    [][ ReadStep =>
          /\ \A b \in 1..Len(batches) :
               Cardinality(RowsOfBatch(b)) \in { 0, batches[b] }
          /\ \A j \in 1..Len(done'.ret.rows) :
               Cardinality(RowsOfBatch(done'.ret.rows[j].b))
                 = batches[done'.ret.rows[j].b]
      ]_vars

\* C5 witness: a writer and a reader called concurrently (both awaited the
\* one initialization attempt), and the reader's getTestHistory returned a
\* row of a two-entry batch written in this behaviour.
C5_Witness ==
    /\ \A p \in Procs : awaits[p] = 1
    /\ done.op.name = "getTestHistory"
    /\ \E j \in 1..Len(done.ret.rows) :
         /\ done.ret.rows[j].b > Len(PreAges)
         /\ batches[done.ret.rows[j].b] = 2

\* every stored entry's run_id identifies a stored run
NoOrphans == \A e \in results : e.run_id \in RunIds(runs)

\* a step that only deletes from the tables (only cleanup does)
DeletionStep ==
    /\ runs' \subseteq runs
    /\ results' \subseteq results
    /\ << runs', results' >> # << runs, results >>

\* C6: cleanup leaves no entry without its run.  A cleanup that starts with
\* every entry's run stored (whether it completes or fails part-way, and
\* whenever its two deletes read the clock) ends with every entry's run
\* stored.
C6_NoOrphansAfterCleanup ==
    [][ (NoOrphans /\ DeletionStep) => NoOrphans' ]_vars

\* the instant a timestamp written by recordTestRun denotes
Instant(ts) == ts[1] * SlotsPerDay + ts[3]

\* the run was recorded strictly more than RetentionDays days before clock n
StrictlyOlder(r, n) == Instant(r.timestamp) < n - RetentionDays * SlotsPerDay

\* C7: a cleanup that completes on an enabled store removes every run
\* strictly older than the retention period, together with its entries,
\* and keeps every other run.
C7_CleanupRemovesOld ==
    [][ (CleanupStep /\ enabled /\ db = "open" /\ done'.warn = "none") =>
          /\ \A r \in runs : r \in runs' <=> ~StrictlyOlder(r, now')
          /\ \A e \in results :
               (e.run_id \in RunIds(runs)
                  /\ StrictlyOlder(RunOf(runs, e.run_id), now'))
               => e \notin results'
      ]_vars

\* what each operation returns in disabled mode
DisabledResult(name) ==
    CASE name = "recordTestRun" -> RetNull
      [] name = "recordTestResults" -> RetUndefined
      [] name = "getTestHistory" -> RetRows(<< >>)
      [] name = "getFlakiness" -> RetNull
      [] name = "findSimilarFailures" -> RetSimilar(<< >>)

AsyncOps == { "recordTestRun", "recordTestResults", "getTestHistory",
              "getFlakiness", "findSimilarFailures" }

\* C8: a failed initialization does not raise.  Once initialize has logged
\* that the driver could not be loaded or that the directory, the open or the
\* schema failed, the store is disabled (enabled = false) and initialized,
\* no attempt ended by throwing, and each operation that returned since -
\* the one that triggered the initialization among them - returned its
\* disabled-mode result, logging nothing.
C8_InitFailureDisables ==
    initWarn \in { "not_installed", "failed" } =>
      /\ ~enabled
      /\ initialized
      /\ \A a \in 1..Len(attempts) : attempts[a] = "done"
      /\ done.op.name \in AsyncOps =>
           done.ret = DisabledResult(done.op.name) /\ done.warn = "none"

\* C8 witness: setting up the schema failed with the database open, and the
\* recordTestRun that triggered the initialization returned null.
C8_Witness ==
    /\ initWarn = "failed"
    /\ db = "open"
    /\ done.op.name = "recordTestRun"
    /\ done.ret = RetNull
    /\ \E p \in Procs : pc[p] = "idle"

\* C9: disabled mode is a no-op.  While enabled is false - by configuration
\* or after a failed initialization - no step changes the stored runs and
\* entries, the store stays disabled, and every operation returns its
\* disabled-mode result (null, nothing, an empty sequence) without raising
\* or logging.
C9_DisabledNoOp ==
    [][ ~enabled =>
          /\ runs' = runs /\ results' = results
          /\ nextRunId' = nextRunId /\ nextResultId' = nextResultId
          /\ ~enabled'
          /\ ResumeStep =>
               done'.ret = DisabledResult(done'.op.name) /\ done'.warn = "none"
      ]_vars

\* C9 witness: after an initialization that failed with the database open,
\* a recordTestResults of a non-empty batch for a stored run returned with
\* the tables holding what they held before.
C9_Witness ==
    /\ ~enabled
    /\ db = "open"
    /\ done.op.name = "recordTestResults"
    /\ Len(done.op.tests) > 0
    /\ done.op.runId \in RunIds(runs)
    /\ results = { PreRow(i) : i \in DOMAIN PreAges }

\* a write operation ran in this step and logged that it failed
WriteFailed ==
    /\ ResumeStep
    /\ done'.warn \in { "record_run_failed", "record_results_failed" }

\* the kind of value a successful write returns
SuccessKind(name) == IF name = "recordTestRun" THEN "id" ELSE "undefined"

\* C10 as stated: a failed write does not raise, leaves the committed runs
\* and entries unchanged, and returns a value that a successful write of the
\* same operation does not return.
C10_WriteFailureSignalled_Stated ==
    [][ WriteFailed =>
          /\ runs' = runs /\ results' = results
          /\ done'.ret.k # "thrown"
          /\ done'.ret.k # SuccessKind(done'.op.name)
      ]_vars

\* C10 amended: a failed write does not raise and leaves the committed runs
\* and entries unchanged; recordTestRun returns null, which no successful
\* recordTestRun returns (it returns the run id); recordTestResults returns
\* nothing, as it does on success, and the failure is only logged.
C10_WriteFailureSoft ==
    [][ /\ WriteFailed =>
          /\ runs' = runs /\ results' = results
          /\ done'.op.name = "recordTestRun" => done'.ret = RetNull
          /\ done'.op.name = "recordTestResults" => done'.ret = RetUndefined
        /\ ( /\ ResumeStep
             /\ done'.op.name = "recordTestRun"
             /\ done'.warn = "none"
             /\ ~Disabled )
           => done'.ret = RetId(nextRunId)
      ]_vars

\* C10 witness: with the database open and enabled, a recordTestRun failed
\* and returned null.
C10_Witness ==
    /\ done.op.name = "recordTestRun"
    /\ done.warn = "record_run_failed"
    /\ done.ret = RetNull
    /\ db = "open"
    /\ enabled

\* C11: a failed query returns the empty value.  When getTestHistory,
\* findSimilarFailures or getFlakiness logs that its query failed - as every
\* query does once close() was called on the enabled store - it returns an
\* empty sequence (getFlakiness: null), nothing is thrown to the caller, and
\* the stored runs and entries are unchanged.
C11_ReadFailureEmpty ==
    [][ ReadStep =>
          /\ (db = "closed" /\ enabled
                /\ ~(done'.op.name = "findSimilarFailures"
                       /\ done'.op.h = NoError))
             => done'.warn = "query_failed"
          /\ done'.warn = "query_failed" =>
               /\ done'.ret = DisabledResult(done'.op.name)
               /\ runs' = runs /\ results' = results
          /\ done'.ret # RetThrown
      ]_vars

\* C11 witness: after close() on an enabled store that holds entries of t1,
\* getFlakiness("t1") failed and returned null.
C11_Witness ==
    /\ done.op.name = "getFlakiness"
    /\ done.op.t = "t1"
    /\ done.warn = "query_failed"
    /\ done.ret = RetNull
    /\ db = "closed"
    /\ enabled
    /\ results # { }

FlakinessStep ==
    /\ ReadStep
    /\ done'.op.name = "getFlakiness"
    /\ enabled /\ db = "open"
    /\ done'.warn = "none"

WithinDays(t, w) ==
    { r \in Joined(t) : Instant(r.timestamp) >= now - w * SlotsPerDay }

\* the same, leaving out a run recorded exactly w days before now
StrictlyWithinDays(t, w) ==
    { r \in Joined(t) : Instant(r.timestamp) > now - w * SlotsPerDay }

\* C14: getFlakiness counts exactly the entries of the named test whose run
\* lies within windowDays of now.  totalRuns, passes and failures are the
\* numbers of such entries (an entry of a run recorded exactly windowDays ago
\* may be counted or not), passes + failures = totalRuns, and no entry of an
\* older run is counted.
C14_CountsExactlyWindow ==
    [][ FlakinessStep =>
          LET inner == StrictlyWithinDays(done'.op.t, WindowDays)
              outer == WithinDays(done'.op.t, WindowDays)
              st == done'.ret.stats
              N(rows, status) == Cardinality({ r \in rows : r.status = status })
          IN /\ done'.ret = RetNull => inner = { }
             /\ done'.ret # RetNull =>
                  /\ done'.ret.k = "stats"
                  /\ st.passes + st.failures = st.totalRuns
                  /\ Cardinality(inner) <= st.totalRuns
                  /\ st.totalRuns <= Cardinality(outer)
                  /\ N(inner, "pass") <= st.passes
                  /\ st.passes <= N(outer, "pass")
                  /\ N(inner, "fail") <= st.failures
                  /\ st.failures <= N(outer, "fail")
      ]_vars

\* a getTestHistory call whose query ran
HistoryStep ==
    /\ ReadStep
    /\ done'.op.name = "getTestHistory"
    /\ enabled /\ db = "open"
    /\ done'.warn = "none"

\* the stored entries of test t that belong to a stored run
EntriesOf(t) ==
    { r \in results : r.test_name = t /\ r.run_id \in RunIds(runs) }

\* the instant at which the run of entry id was recorded
RecordedAt(id) ==
    LET e == CHOOSE r \in results : r.id = id
    IN Instant(RunOf(runs, e.run_id).timestamp)

\* C15: getTestHistory(testName, limit) returns only stored entries of that
\* test, each once, at most limit of them and as many as there are up to
\* limit, ordered by the time of their run, most recent first; an entry left
\* out is no more recent than any entry returned.
C15_HistoryMostRecentFirst ==
    [][ HistoryStep =>
          LET s == done'.ret.rows
              t == done'.op.t
              limit == done'.op.limit
              all == { r.id : r \in EntriesOf(t) }
              got == { s[i].id : i \in 1..Len(s) }
          IN /\ done'.ret.k = "rows"
             /\ Len(s) <= limit
             /\ Len(s) = IF Cardinality(all) < limit
                         THEN Cardinality(all) ELSE limit
             /\ got \subseteq all
             /\ Cardinality(got) = Len(s)
             /\ \A i \in 1..Len(s) :
                  /\ s[i].test_name = t
                  /\ Instant(s[i].timestamp) = RecordedAt(s[i].id)
             /\ \A i \in 1..(Len(s) - 1) :
                  RecordedAt(s[i].id) >= RecordedAt(s[i + 1].id)
             /\ \A x \in all \ got : \A y \in got :
                  RecordedAt(x) <= RecordedAt(y)
      ]_vars

\* C15 witness: getTestHistory("t1", 1) returned one entry although several
\* entries of t1 recorded at different times are stored.
C15_Witness ==
    /\ done.op.name = "getTestHistory"
    /\ done.op.limit = 1
    /\ done.warn = "none"
    /\ Len(done.ret.rows) = 1
    /\ \E x, y \in EntriesOf(done.op.t) : RecordedAt(x.id) < RecordedAt(y.id)

\* a findSimilarFailures call whose query ran
SimilarStep ==
    /\ ReadStep
    /\ done'.op.name = "findSimilarFailures"
    /\ done'.op.h # NoError
    /\ enabled /\ db = "open"
    /\ done'.warn = "none"

\* the stored failing entries with hash h of test t in file f
Occurrences(h, t, f) ==
    { r \in results : /\ r.error_hash = h /\ r.status = "fail"
                      /\ r.test_name = t /\ r.file = f }

\* the (testName, file) pairs that have a failing entry with hash h
FailingPairs(h) ==
    { << r.test_name, r.file >>
      : r \in { x \in results : x.error_hash = h /\ x.status = "fail" } }

\* one group more than the cap, with occurrence counts 1, 2, ...
OverCap ==
    { [test_name |-> "t", file |-> n, occurrences |-> n]
      : n \in 1..(SimilarLimit + 1) }

FailureOf(t) == CHOOSE f \in { failures[i] : i \in 1..Len(failures) } : f.t = t

\* the message of failure f reports a read of property w of undefined
ReadsOfUndefined(f, w) == MatchReading(UndefinedPrefix, f.msg) = Match(<< << w >> >>)

\* C17: an undefined-property-access group contains only failures that read
\* the same property: every test listed in a group for property X failed
\* reading X of undefined (of failures reading 'name', 'name' and 'age' with
\* minGroupSize 2, the group for 'name' lists the first two only).
C17_GroupReadsOneProperty ==
    phase = "analyzed" =>
      \A g \in 1..Len(rootCauses) : \A w \in Words :
        rootCauses[g].pattern
            = << "Accessing property '", w, "' on undefined object" >>
          => \A j \in 1..Len(rootCauses[g].affectedTests) :
               ReadsOfUndefined(FailureOf(rootCauses[g].affectedTests[j]), w)

\* the groups of rootCauses that are, and are not, the catch-all group
CatchAllGroups ==
    { g \in 1..Len(rootCauses) : rootCauses[g].pattern = CatchAllPattern }
NamedGroups == (1..Len(rootCauses)) \ CatchAllGroups

\* the tests a group lists
TestsOf(g) ==
    { rootCauses[g].affectedTests[j]
      : j \in 1..Len(rootCauses[g].affectedTests) }

\* the tests of the batch that no named group lists
Unclaimed ==
    { failures[i].t : i \in 1..Len(failures) }
      \ UNION { TestsOf(g) : g \in NamedGroups }

\* the message of failure f matches none of the patterns
MatchesNothing(f) ==
    \A k \in 1..Len(PatternNames) : ~RegexMatch(PatternNames[k], f.msg).ok

\* C18: the catch-all group exists if and only if some failure is left
\* unclaimed by the named groups (as every failure is that matches no
\* pattern); there is at most one, it lists exactly the unclaimed failures,
\* its confidence is 0.30, and an empty batch gives no group at all.
C18_CatchAllIffUnclaimed ==
    phase = "analyzed" =>
      /\ Cardinality(CatchAllGroups) <= 1
      /\ CatchAllGroups # { } <=> Unclaimed # { }
      /\ \A g \in CatchAllGroups :
           /\ TestsOf(g) = Unclaimed
           /\ rootCauses[g].count = Cardinality(Unclaimed)
           /\ rootCauses[g].confidence = 30
      /\ \A i \in 1..Len(failures) :
           MatchesNothing(failures[i]) => failures[i].t \in Unclaimed
      /\ Len(failures) = 0 => rootCauses = << >>

\* C18 witness: of three failures, two were claimed by a named group and the
\* third, which matches no pattern, is alone in the catch-all group.
C18_Witness ==
    /\ phase = "analyzed"
    /\ Len(failures) = 3
    /\ MatchesNothing(failures[3])
    /\ Cardinality(NamedGroups) = 1
    /\ \E g \in CatchAllGroups :
         TestsOf(g) = { failures[3].t } /\ rootCauses[g].confidence = 30

\* the failures of the batch whose message matches the pattern called name
MatchingFailures(name) ==
    { i \in 1..Len(failures) : RegexMatch(name, failures[i].msg).ok }

\* C19: no named group has fewer than minGroupSize members.  A pattern that
\* fewer than minGroupSize failures of the batch match gets no group; a batch
\* smaller than minGroupSize gets no named group at all, and its failures
\* are in the catch-all group.
C19_NoSmallNamedGroup ==
    phase = "analyzed" =>
      /\ \A g \in NamedGroups :
           /\ rootCauses[g].count >= minGroupSize
           /\ Cardinality(TestsOf(g)) >= minGroupSize
      /\ \A k \in 1..Len(PatternNames) :
           Cardinality(MatchingFailures(PatternNames[k])) < minGroupSize =>
             \A g \in NamedGroups :
               rootCauses[g].confidence = PatternConfidence(PatternNames[k])
                 => \E k2 \in 1..Len(PatternNames) :
                      /\ k2 # k
                      /\ PatternConfidence(PatternNames[k2])
                           = rootCauses[g].confidence
                      /\ TestsOf(g) \subseteq
                           { failures[i].t : i \in MatchingFailures(PatternNames[k2]) }
      /\ (0 < Len(failures) /\ Len(failures) < minGroupSize) =>
           /\ NamedGroups = { }
           /\ \E g \in CatchAllGroups : rootCauses[g].count = Len(failures)

\* C19 witness: with minGroupSize 3, two failures reading a property of
\* undefined and a third of another kind got no named group: all three are
\* in the catch-all group.
C19_Witness ==
    /\ phase = "analyzed"
    /\ minGroupSize = 3
    /\ Len(failures) = 3
    /\ Cardinality(MatchingFailures("undefined_property_access")) = 2
    /\ NamedGroups = { }
    /\ \E g \in CatchAllGroups : rootCauses[g].count = 3

\* C20: analyze returns the groups sorted by descending confidence: each
\* group's confidence is at least that of the next one, the catch-all group
\* (0.30), when there is one, is the last, and getSummary reports a group of
\* the highest confidence (null when there is no group).
C20_SortedByConfidence ==
    phase \in { "analyzed", "summarized" } =>
      /\ \A g \in 1..(Len(rootCauses) - 1) :
           rootCauses[g].confidence >= rootCauses[g + 1].confidence
      /\ \A g \in CatchAllGroups : g = Len(rootCauses)
      /\ phase = "summarized" =>
           IF rootCauses = << >> THEN summary = NoSummary
           ELSE /\ summary.k = "summary"
                /\ summary.totalPatterns = Len(rootCauses)
                /\ \A g \in 1..Len(rootCauses) :
                     summary.topConfidence >= rootCauses[g].confidence
                /\ \E g \in 1..Len(rootCauses) :
                     /\ rootCauses[g].pattern = summary.topPattern
                     /\ rootCauses[g].confidence = summary.topConfidence
                     /\ rootCauses[g].count = summary.topAffectedCount

\* C20 witness: an array-length group (0.90), a type-mismatch group (0.75,
\* earlier in the catalog) and the catch-all group were returned in this
\* order, and the summary reports the array-length group.
C20_Witness ==
    /\ phase = "summarized"
    /\ Len(rootCauses) = 3
    /\ rootCauses[1].confidence = 90
    /\ rootCauses[2].confidence = 75
    /\ rootCauses[3].pattern = CatchAllPattern
    /\ summary.k = "summary"
    /\ summary.topConfidence = 90
    /\ summary.topPattern = rootCauses[1].pattern

\* C21: hashError is invariant under volatile details.  Two messages that
\* differ only in embedded numbers, in line:col pairs and in the contents of
\* quoted string literals get the same hash (and so does one message hashed
\* twice).
C21_HashInvariant ==
    hashing.phase = "hashed" => hashing.ha = hashing.hb

\* the failures of the batch that the k-th matcher of the catalog claims:
\* those matching it that no earlier matcher claimed, if they are at least
\* minGroupSize
RECURSIVE ClaimedUpTo(_)
ClaimedUpTo(k) ==
    IF k = 0 THEN { }
    ELSE LET earlier == ClaimedUpTo(k - 1)
             offered == MatchingFailures(PatternNames[k]) \ earlier
         IN IF Cardinality(offered) >= minGroupSize
            THEN earlier \cup offered ELSE earlier
ClaimedBy(k) == ClaimedUpTo(k) \ ClaimedUpTo(k - 1)

\* the matchers that claim something
Claiming == { k \in 1..Len(PatternNames) : ClaimedBy(k) # { } }

\* C22: greedy claiming.  A failure that matches several matchers is in the
\* group of the first matcher of the catalog whose not-yet-claimed matching
\* failures number at least minGroupSize, whatever the confidence of the
\* later ones, and in no group of a later matcher: the named groups are
\* exactly the claims of the matchers, each with its matcher's confidence.
C22_GreedyClaiming ==
    phase = "analyzed" =>
      /\ Cardinality(NamedGroups) = Cardinality(Claiming)
      /\ \A k \in Claiming :
           \E g \in NamedGroups :
             /\ TestsOf(g) = { failures[i].t : i \in ClaimedBy(k) }
             /\ rootCauses[g].confidence = PatternConfidence(PatternNames[k])
      /\ \A i \in 1..Len(failures) : \A k1, k2 \in 1..Len(PatternNames) :
           (k1 < k2 /\ i \in ClaimedBy(k1)) =>
             \A g \in NamedGroups :
               failures[i].t \in TestsOf(g) =>
                 TestsOf(g) = { failures[j].t : j \in ClaimedBy(k1) }

\* C22 witness: two failures whose message matches both the assertion-error
\* matcher (0.60) and the later timeout matcher (0.85) were claimed by the
\* assertion-error matcher; there is no timeout group.
C22_Witness ==
    /\ phase = "analyzed"
    /\ minGroupSize = 2
    /\ Len(failures) = 2
    /\ \A i \in 1..2 :
         /\ RegexMatch("assertion_error", failures[i].msg).ok
         /\ RegexMatch("timeout", failures[i].msg).ok
    /\ Len(rootCauses) = 1
    /\ rootCauses[1].confidence = 60
    /\ rootCauses[1].count = 2

\* failure i is in a named group that has the confidence of the matcher
\* called name and lists only failures matching it
GroupedUnder(i, name) ==
    \E g \in NamedGroups :
      /\ failures[i].t \in TestsOf(g)
      /\ rootCauses[g].confidence = PatternConfidence(name)
      /\ TestsOf(g) \subseteq { failures[j].t : j \in MatchingFailures(name) }

\* the failures matching the matchers a and b and no other matcher
MatchingJust(a, b) ==
    { i \in MatchingFailures(a) \cap MatchingFailures(b) :
        \A k \in 1..Len(PatternNames) :
          RegexMatch(PatternNames[k], failures[i].msg).ok
            => PatternNames[k] \in { a, b } }

\* the matchers are tried in the given order: when at least minGroupSize
\* failures match two matchers (and no third), they are grouped under the
\* one that comes first in the order
TriedInOrder(order) ==
    phase = "analyzed" =>
      \A x, y \in 1..Len(order) :
        (x < y /\ Cardinality(MatchingJust(order[x], order[y])) >= minGroupSize)
          => \A i \in MatchingJust(order[x], order[y]) :
               GroupedUnder(i, order[x])

\* C23, as stated: the matchers are tried in the order of the catalog
\* table - undefined-property-access, null-property-access, not-a-function,
\* undefined-reference, array-length-mismatch, timeout,
\* type-or-value-mismatch, generic-assertion - so that failures matching
\* timeout and generic-assertion are grouped under timeout.
C23_TableOrder_Stated ==
    TriedInOrder(<< "undefined_property_access", "null_property_access",
                    "not_a_function", "undefined_reference", "array_length",
                    "timeout", "type_mismatch", "assertion_error" >>)

\* C23, amended: the matchers are tried in the order undefined-property-
\* access, null-property-access, type-or-value-mismatch,
\* array-length-mismatch, generic-assertion, timeout, not-a-function,
\* undefined-reference, so that failures matching generic-assertion and
\* timeout are grouped under generic-assertion (0.60).
C23_CatalogOrder ==
    TriedInOrder(<< "undefined_property_access", "null_property_access",
                    "type_mismatch", "array_length", "assertion_error",
                    "timeout", "not_a_function", "undefined_reference" >>)

\* C23 witness: three failures matching generic-assertion and timeout, and
\* nothing else, form one group of confidence 0.60.
C23_Witness ==
    /\ phase = "analyzed"
    /\ Len(failures) = 3
    /\ MatchingJust("assertion_error", "timeout") = { 1, 2, 3 }
    /\ minGroupSize = 3
    /\ \A i \in 1..3 : GroupedUnder(i, "assertion_error")
    /\ \A g \in NamedGroups : rootCauses[g].confidence # 85

\* the store calls of the reporter with the given operation name
CallsOf(name) == { i \in 1..Len(vr.calls) : vr.calls[i].op.name = name }

\* every call with a name of the set has returned
Returned(names) ==
    \A i \in 1..Len(vr.calls) :
      vr.calls[i].op.name \in names => vr.calls[i].state = "returned"

NewEntries == { r \in results : r.id > Len(PreAges) }

SameId(r, table) == { x \in table : x.id = r.id }

\* C26: persisted runs and entries are append-only.  No step changes a
\* stored run or entry; the steps of recordTestRun, recordTestResults,
\* getTestHistory, getFlakiness and findSimilarFailures remove none (and
\* recordTestRun leaves the entries, hence every findSimilarFailures result,
\* as they are); and a run that any step removes was recorded more than the
\* retention period ago, an entry that any step removes belongs to such a
\* run.
C26_AppendOnly ==
    [][ /\ \A r \in runs : SameId(r, runs') \subseteq { r }
        /\ \A e \in results : SameId(e, results') \subseteq { e }
        /\ ResumeStep => (runs \subseteq runs' /\ results \subseteq results')
        /\ (ResumeStep /\ done'.op.name = "recordTestRun") =>
             /\ results' = results
             /\ \A h \in ErrorHashes : SimilarGroups(h)' = SimilarGroups(h)
        /\ \A r \in runs \ runs' : StrictlyOlder(r, now')
        /\ \A e \in results \ results' :
             \E r \in runs : r.id = e.run_id /\ StrictlyOlder(r, now')
      ]_vars

\* C26 witness: on a store that held old and recent runs, the sweep removed
\* the run recorded 45 days ago with its entry, the run recorded 10 days ago
\* and its entry are still stored as they were, and a new run with a new
\* entry was recorded since.
C26_Witness ==
    /\ db = "open"
    /\ PreRun(1) \notin runs /\ PreRow(1) \notin results
    /\ PreRun(3) \in runs /\ PreRow(3) \in results
    /\ \E r \in runs : r.id > Len(PreAges)
    /\ \E e \in results : e.id > Len(PreAges)

\* the step in which an initialization attempt ends
InitEndStep ==
    \E a \in 1..Len(attempts) :
      attempts[a] = "loading" /\ attempts'[a] # "loading"

\* the step in which an attempt ends successfully: the database is open,
\* the schema set up, and the store stays enabled
InitSuccessStep == InitEndStep /\ enabled' /\ db' = "open"

\* the run was recorded more than RetentionDays + 1 days before clock n
LongGone(r, n) ==
    Instant(r.timestamp) < n - (RetentionDays + 1) * SlotsPerDay

\* C27: the retention sweep runs as part of a successful initialization and,
\* of the store's own doing, only there.  The step that ends a successful
\* attempt sweeps (unless the sweep fails, no run recorded more than a day
\* beyond the retention period is left), it is the first time the database
\* is opened, and every caller of a store operation is still waiting; a
\* caller is served only on an initialized store; an attempt that ends in
\* disabled mode deletes nothing; rows are deleted only on an enabled, open
\* store, by the initialization step or by an explicit call of cleanup();
\* and the database, once opened, is not opened again, so no second sweep of
\* an initialization runs.
C27_SweepWithinInit ==
    [][ /\ InitSuccessStep =>
             /\ db = "null"
             /\ \A p \in Procs : awaits[p] # 0 => pc[p] = "waiting"
             /\ initWarn' # "cleanup_failed" =>
                  \A r \in runs' : ~LongGone(r, now')
        /\ ResumeStep => initialized
        /\ (InitEndStep /\ ~enabled') => (runs' = runs /\ results' = results)
        /\ DeletionStep =>
             /\ enabled' /\ db' = "open"
             /\ InitSuccessStep \/ CleanupStep
        /\ db # "null" => db' # "null"
      ]_vars

\* C27 witness: initialization has just succeeded on a store that held a
\* run recorded 45 days ago: the run is gone, the recent ones are there, and
\* both callers are still waiting to be served.
C27_Witness ==
    /\ enabled /\ db = "open" /\ initialized
    /\ \A p \in Procs : pc[p] = "waiting" /\ awaits[p] = 1
    /\ PreRun(1) \notin runs
    /\ PreRun(5) \in runs

\* C28: initialization always terminates.  Every caller waiting on
\* initialize() eventually returns, and every attempt that was started
\* eventually ends with the store initialized, in enabled or disabled mode,
\* whatever the environment does to the attempt (the driver missing, the
\* directory or the file unavailable, the schema failing, the sweep failing).
C28_InitTerminates ==
    /\ \A p \in Procs : (pc[p] = "waiting") ~> (pc[p] = "returned")
    /\ (attempts # << >>) ~>
         (initialized /\ \A a \in 1..Len(attempts) : attempts[a] = "done")

\* C28 witness: the medium was unavailable; the attempt has ended in
\* disabled mode and both callers that waited for it have returned.
C28_Witness ==
    /\ initialized /\ ~enabled /\ initWarn = "failed"
    /\ attempts = << "done" >>
    /\ \A p \in Procs : pc[p] = "returned" /\ awaits[p] = 1

\* an attempt has ended, successfully or not
AttemptFinished == \E a \in 1..Len(attempts) : attempts[a] # "loading"

\* C29: the store's mode is monotonic.  In every step initialized stays
\* true once true and enabled stays false once false; and once an attempt
\* has ended no step starts or continues an attempt (the driver is not
\* loaded again) and no step opens the database.
C29_ModeMonotonic ==
    [][ /\ initialized => initialized'
        /\ ~enabled => ~enabled'
        /\ AttemptFinished =>
             /\ attempts' = attempts
             /\ initPromise' = initPromise
             /\ db' = "open" => db = "open"
      ]_vars

\* C29 witness: the attempt started by the first caller failed into disabled
\* mode; a second caller came after it had ended, found the store
\* initialized and returned without a new attempt.
C29_Witness ==
    /\ initialized /\ ~enabled /\ initWarn = "failed"
    /\ attempts = << "done" >>
    /\ \E p, q \in Procs :
         /\ pc[p] = "returned" /\ awaits[p] = 1
         /\ pc[q] = "returned" /\ awaits[q] = 0 /\ done.op.name = "getFlakiness"

\* the files of the frames of failure f that are not marked as test frames
NonTestFiles(f) ==
    IF stkOf(f).k # "array" THEN { }
    ELSE { matchFile(stkOf(f).frames[i].at) :
             i \in { j \in 1..Len(stkOf(f).frames) : ~stkOf(f).frames[j].test } }
         \ { NullMatch }

\* the number of failures of the group with a frame, not marked as a test
\* frame, in the file
FailuresThrough(x) ==
    Cardinality({ i \in 1..Len(common.failures) :
                    x \in NonTestFiles(common.failures[i]) })

AllNonTestFiles ==
    UNION { NonTestFiles(common.failures[i]) : i \in 1..Len(common.failures) }

Listed == { common.out[k].file : k \in 1..Len(common.out) }

\* C30: the list returned for a group has at most 3 entries, of different
\* files; each entry's count is the number of failures of the group with a
\* frame in that file that is not marked as a test frame (frames marked as
\* test frames count for nothing, and a file is counted once per failure),
\* which is at least 2 and at most the size of the group; the entries are in
\* descending order of count; and a recurring file is left out only when
\* three files that recur at least as often are listed.
C30_SuspectedFiles ==
    common.phase = "found" =>
      LET out == common.out
          n == Len(common.failures)
      IN /\ Len(out) <= MaxSuspected
         /\ \A k, l \in 1..Len(out) : k # l => out[k].file # out[l].file
         /\ \A k \in 1..Len(out) :
              /\ out[k].count = FailuresThrough(out[k].file)
              /\ 2 <= out[k].count /\ out[k].count <= n
         /\ \A k \in 1..(Len(out) - 1) : out[k].count >= out[k + 1].count
         /\ \A x \in AllNonTestFiles \ Listed :
              FailuresThrough(x) >= 2 =>
                /\ Len(out) = MaxSuspected
                /\ \A k \in 1..Len(out) : out[k].count >= FailuresThrough(x)

\* C30 witness: a group of three failures, one of them with a frame marked
\* as a test frame; four source files recur, three are listed, the first in
\* all three failures and the last in two.
C30_Witness ==
    /\ common.phase = "found"
    /\ Len(common.failures) = 3
    /\ \E i \in 1..3 : common.failures[i].stk = StkArray(<< TestFrame >>
                            \o Through({ "src/a.js", "src/b.js", "src/c.js", "src/d.js" }))
    /\ Len(common.out) = 3
    /\ common.out[1].count = 3
    /\ common.out[3].count = 2
    /\ \E x \in AllNonTestFiles \ Listed : FailuresThrough(x) = 2
    /\ << TestFile >> \notin Listed

====
